---- MODULE Spec2Model ----
(***************************************************************************)
(* The staged pipeline orchestrator of pi-core (PipelineRunner), its run   *)
(* and entity stores (Database) and the discovery aggregator               *)
(* (ProblemDiscoveryEngine), as a state machine.  One action is one        *)
(* statement of run_full_pipeline or of a stage executor that changes the  *)
(* run object, the store or the position of the call; pc labels are the    *)
(* line numbers of src/pi_core/pipeline/__init__.py.                       *)
(***************************************************************************)
EXTENDS Integers, Sequences, FiniteSets, TLC

\* ------------------------------------------------------------------ bounds
\* Number of run_full_pipeline calls made on the one PipelineRunner.
MaxCalls == 1

Calls == 1..MaxCalls

\* Largest limit passed to discover when it is followed on its own.
MaxLimit == 3

\* ------------------------------------------------------------ enumerations
\* PipelineStage, in declaration order.
PipelineStage == <<"discover", "define", "build", "package", "publish">>

StageSet == {PipelineStage[i] : i \in 1..Len(PipelineStage)}

\* Position of a stage in the pipeline order.
StageIndex(s) == CHOOSE i \in 1..Len(PipelineStage) : PipelineStage[i] = s

\* PipelineStatus.
PipelineStatus == {"pending", "running", "success", "failed", "cancelled"}

\* Optional[str] = None for an id; ids are positive.
NoId == 0

\* Optional[datetime] = None; the clock starts above it.
NoTime == 0

\* A problem id the caller may pass that no store ever holds.
BogusId == 1

\* ------------------------------------------------------------------ values
\* error_message: a literal text, an interpolated id, an interpolated cause.
\* None and the empty string are both [text "", id NoId, cause ""].
Message(text, id, cause) == [text |-> text, id |-> id, cause |-> cause]

NoMessage == Message("", NoId, "")

\* A message that is one text, and str(e) alone.
Text(t) == Message(t, NoId, "")

Cause(e) == Message("", NoId, e)

\* Truthiness / non-emptiness of the rendered string.
Populated(m) == m.text # "" \/ m.cause # ""

\* str(e) of the exceptions a stage engine can raise ("" : raised without args).
EngineErrors == {"boom", ""}

\* str(e) of a failed store write.
StoreError == "database is locked"

\* Problems the source adapters can produce (confidence and recency in tenths).
RawProblem(title, c, r, f) ==
    [title |-> title, confidence_score |-> c, recency_score |-> r, frequency_score |-> f]

NoProblem == [id |-> NoId, title |-> "", confidence_score |-> 0,
              recency_score |-> 0, frequency_score |-> 0]

NoProduct == [id |-> NoId, problem_id |-> NoId]

NoListing == [id |-> NoId, product_id |-> NoId, asset_bundle_path |-> NoId]

\* str.lower() on the titles the adapters produce.
Lower(t) == CASE t = "Fix Bug" -> "fix bug"
              [] t = "Slow CI" -> "slow ci"
              [] t = "Old Docs" -> "old docs"
              [] t = "No Tests" -> "no tests"
              [] t = "Script" -> "script"
              [] t = "App" -> "app"
              [] OTHER -> t

\* What one adapter's discover_problems can do: raise, or return a list.
AdapterOutcomes ==
    { [raised |-> TRUE,  problems |-> <<>>],
      [raised |-> FALSE, problems |-> <<>>],
      [raised |-> FALSE, problems |-> <<RawProblem("Fix Bug", 5, 5, 3)>>],
      [raised |-> FALSE, problems |-> <<RawProblem("fix bug", 9, 10, 15),
                                        RawProblem("Slow CI", 9, 10, 15)>>],
      [raised |-> FALSE, problems |-> <<RawProblem("Old Docs", 5, 5, 3),
                                        RawProblem("Slow CI", 9, 10, 20),
                                        RawProblem("No Tests", 5, 5, 3)>>] }

\* ------------------------------------------------- ProblemDiscoveryEngine
\* The sort key of discover, times 1500:
\* 0.4*confidence + 0.3*recency + 0.3*min(frequency/15, 1.0).
FrequencyNorm == 15

Min(a, b) == IF a <= b THEN a ELSE b

\* The key with the recency term subtracted instead of added.
CompositeScoreAgeing(p) ==
    60 * p.confidence_score - 45 * p.recency_score
      + 30 * Min(p.frequency_score, FrequencyNorm)

CompositeScore(p) ==
    60 * p.confidence_score + 45 * p.recency_score
      + 30 * Min(p.frequency_score, FrequencyNorm)

RECURSIVE DedupFrom(_, _, _)
DedupFrom(problems, seen, unique) ==
    IF problems = <<>> THEN unique
    ELSE LET p == Head(problems)
             t == Lower(p.title)
         IN  IF t \notin seen
             THEN DedupFrom(Tail(problems), seen \cup {t}, Append(unique, p))
             ELSE DedupFrom(Tail(problems), seen, unique)

\* _deduplicate_problems comparing the titles as they are, without lower().
RECURSIVE DedupExactFrom(_, _, _)
DedupExactFrom(problems, seen, unique) ==
    IF problems = <<>> THEN unique
    ELSE LET p == Head(problems)
         IN  IF p.title \notin seen
             THEN DedupExactFrom(Tail(problems), seen \cup {p.title}, Append(unique, p))
             ELSE DedupExactFrom(Tail(problems), seen, unique)

DeduplicateExact(problems) == DedupExactFrom(problems, {}, <<>>)

DeduplicateProblems(problems) == DedupFrom(problems, {}, <<>>)

\* Insert p after every element whose key is >= its own: list.sort(reverse=True)
\* is stable, equal keys keep their input order.
RECURSIVE InsertDesc(_, _)
InsertDesc(sorted, p) ==
    IF sorted = <<>> THEN <<p>>
    ELSE IF CompositeScore(Head(sorted)) >= CompositeScore(p)
         THEN <<Head(sorted)>> \o InsertDesc(Tail(sorted), p)
         ELSE <<p>> \o sorted

RECURSIVE SortDesc(_, _)
SortDesc(problems, acc) ==
    IF problems = <<>> THEN acc
    ELSE SortDesc(Tail(problems), InsertDesc(acc, Head(problems)))

Take(s, n) == IF Len(s) <= n THEN s ELSE SubSeq(s, 1, n)

\* all_problems.extend(problems) over the adapters; a raising adapter adds nothing.
RECURSIVE Collect(_)
Collect(outcomes) ==
    IF outcomes = <<>> THEN <<>>
    ELSE (IF Head(outcomes).raised THEN <<>> ELSE Head(outcomes).problems)
           \o Collect(Tail(outcomes))

\* discover without the re-ranking of lines 45-52.
DiscoverUnranked(outcomes, limit) ==
    Take(DeduplicateProblems(Collect(outcomes)), limit)

\* discover(limit) on the outcomes of the registered adapters, in order.
Discover(outcomes, limit) ==
    Take(SortDesc(DeduplicateProblems(Collect(outcomes)), <<>>), limit)

\* limit=10 passed by _run_discover_stage.
DiscoverLimit == 10

\* Problem(...) as the adapter constructs it: id = uuid4(), here a fresh number.
WithId(raw, id) ==
    [id |-> id, title |-> raw.title, confidence_score |-> raw.confidence_score,
     recency_score |-> raw.recency_score, frequency_score |-> raw.frequency_score]

\* ------------------------------------------------------- the other engines
\* define_product: Product(problem_id=problem.id, ...) with a fresh id.
DefineProduct(problem, id) == [id |-> id, problem_id |-> problem.id]

\* generate_assets: the asset directory artifacts_dir / product.id.
GenerateAssets(product) == product.id

\* create_listing: MarketplaceListing(product_id=product.id, ...,
\* asset_bundle_path=artifacts_dir / f"{product.id}.zip") with a fresh id.
CreateListing(product, product_dir, id) ==
    [id |-> id, product_id |-> product.id, asset_bundle_path |-> product.id]

\* ------------------------------------------------------------------- state
VARIABLES
    current_run,   \* PipelineRunner.current_run: id of a run object, or NoId
    heap,          \* the PipelineRun objects in memory, by id
    db_runs,       \* table pipeline_runs, by primary key
    db_problems,   \* table problems, in insertion order
    db_products,   \* table products, in created_at order
    db_listings,   \* table marketplace_listings, in created_at order
    adapters,      \* ProblemDiscoveryEngine.adapters
    artifact_dirs, \* the asset directories under artifacts_dir, by product id
    frame,         \* per call of run_full_pipeline: position, arguments, locals
    clock,         \* datetime.now(timezone.utc)
    next_id,       \* the next uuid4()
    hist,          \* per call: what it did (observation only)
    discover_pc,   \* position of a call of discover taken on its own
    discover_limit, \* discover: the limit argument
    adapter_i,     \* discover: index of the adapter the loop is at
    all_problems,  \* discover: all_problems
    unique_problems, \* discover: unique_problems
    returned,      \* discover: the list returned
    invoked,       \* discover: what each adapter invoked did, in order (observation only)
    call_pc,       \* position of a call of one function taken on its own
    call_arg,      \* that call: its argument
    call_result,   \* that call: what it has built or returned so far
    environ,       \* os.environ: the PI_CORE_* variables, by setting key
    problem_signals, \* table problem_signals, by primary key
    global_enabled, \* config.guardrails.global_enabled
    requests       \* the POST /api/pipeline/run requests handled (observation only)

\* The state of a call of ProblemDiscoveryEngine.discover.
discover_vars == <<discover_pc, discover_limit, adapter_i, all_problems, unique_problems,
                   returned, invoked>>

\* The state of a call of a function taken on its own.
call_vars == <<call_pc, call_arg, call_result>>

\* The state of the process around the runner: its environment, the table of
\* the discovery pipeline, the configuration of the dashboard and its requests.
host_vars == <<environ, problem_signals, global_enabled, requests>>

\* The state of the PipelineRunner, its store and its calls.
pipeline_vars == <<current_run, heap, db_runs, db_problems, db_products, db_listings,
                   artifact_dirs, frame, clock, next_id, hist>>

vars == <<current_run, heap, db_runs, db_problems, db_products, db_listings,
          adapters, artifact_dirs, frame, clock, next_id, hist, discover_vars, call_vars, host_vars>>

\* Arguments and locals of a call that has not started.
IdleFrame ==
    [pc |-> "idle", start_from |-> "discover", problem_id |-> NoId,
     problem |-> NoProblem, has_product |-> FALSE, product |-> NoProduct,
     product_dir |-> NoId, listing |-> NoListing,
     exc |-> "", in_handler |-> FALSE, fail_msg |-> NoMessage,
     outcome |-> "none", result |-> NoId]

NoHist == [run |-> NoId, started |-> <<>>, store_fault |-> FALSE,
           engine_raised |-> <<>>, resolved |-> NoId, prior_artifact |-> FALSE,
           no_artifact |-> FALSE, saved |-> {}, entered |-> <<>>,
           discovered |-> <<>>]

\* _register_adapters: each adapter is registered when it is configured.
\* The two adapters have the same outcomes here, so the configuration with only
\* the second one registered is the same case as the one with only the first.
AdapterConfigs == { <<>>, <<"reddit">>, <<"reddit", "github">> }

\* A Python value given as a setting: an int or a str.
IntV(n) == [type |-> "int", n |-> n, s |-> ""]

StrV(s) == [type |-> "str", n |-> 0, s |-> s]

BoolV(b) == [type |-> "bool", n |-> IF b THEN 1 ELSE 0, s |-> ""]

\* The truth value Python gives a value in a condition.
Truthy(v) == IF v.type = "str" THEN v.s # "" ELSE v.n # 0

\* core/settings.py lines 6-14.
DEFAULTS ==
    [mode |-> StrV("APPROVAL"), max_cost_cents_per_run |-> IntV(0),
     banned_categories_json |-> StrV("[]"), hn_query |-> StrV(""),
     hn_limit |-> IntV(25), hn_tags |-> StrV("story"), hn_by_date |-> StrV("true")]

\* An environment variable: not set, or set to a string.
Unset == [set |-> FALSE, s |-> ""]

EnvSet(s) == [set |-> TRUE, s |-> s]

\* The process as it starts: no PI_CORE_* variable set, an empty table,
\* GuardrailsConfig.global_enabled at its default, no request handled.
HostIdle ==
    /\ environ = [k \in DOMAIN DEFAULTS |-> Unset]
    /\ problem_signals = <<>>
    /\ global_enabled = BoolV(TRUE)
    /\ requests = <<>>

\* No function is being followed on its own.
CallIdle ==
    /\ call_pc = "idle"
    /\ call_arg = NoId
    /\ call_result = NoId
    /\ HostIdle

\* No call of discover is being followed step by step.
DiscoverIdle ==
    /\ discover_pc = "idle"
    /\ discover_limit = 0
    /\ adapter_i = 0
    /\ all_problems = <<>>
    /\ unique_problems = <<>>
    /\ returned = <<>>
    /\ invoked = <<>>

\* The sqlite file outlives the process: Database.__init__ opens whatever file
\* is at db_path and create_all keeps its rows.  A store is what earlier
\* processes left there: nothing, or the rows of one run from discover.
Entry(ts, text) == [ts |-> ts, text |-> text, detail |-> NoMessage]

StoredProblem == WithId(RawProblem("Fix Bug", 5, 5, 3), BogusId + 2)

StoredProduct == DefineProduct(StoredProblem, BogusId + 3)

StoredListing == CreateListing(StoredProduct, GenerateAssets(StoredProduct), BogusId + 4)

StoredLogs ==
    << Entry(2, "Starting discovery stage..."),
       [ts |-> 3, text |-> "Discovered problem: ", detail |-> Text("Fix Bug")],
       Entry(4, "Confidence: , Frequency: , Recency: "),
       Entry(5, "Starting definition stage..."),
       Entry(6, "Defined product: "),
       Entry(7, "Type: "),
       Entry(8, "Features: "),
       Entry(9, "Starting build stage...") >>

\* The row of a run whose build stage raised before writing any file.
BuildFailedRun ==
    [id |-> BogusId + 1, stage |-> "build", status |-> "failed",
     problem_id |-> StoredProblem.id, product_id |-> StoredProduct.id,
     listing_id |-> NoId,
     error_message |-> Message("Pipeline error: ", NoId, "boom"),
     logs |-> StoredLogs \o
              << [ts |-> 10, text |-> "Build stage error: ", detail |-> Cause("boom")],
                 [ts |-> 12, text |-> "Pipeline failed: ",
                  detail |-> Message("Pipeline error: ", NoId, "boom")] >>,
     artifacts |-> <<>>, started_at |-> 1, completed_at |-> 11]

\* The row of a run that went through every stage.
SucceededRun ==
    [id |-> BogusId + 1, stage |-> "package", status |-> "success",
     problem_id |-> StoredProblem.id, product_id |-> StoredProduct.id,
     listing_id |-> StoredListing.id, error_message |-> NoMessage,
     logs |-> StoredLogs \o
              << Entry(10, "Generated assets in: "),
                 Entry(11, "Files created: "),
                 Entry(12, "Starting packaging stage..."),
                 Entry(13, "Created marketplace listing: "),
                 Entry(14, "Pricing: "),
                 Entry(15, "Bundle: "),
                 Entry(17, "Pipeline completed successfully!") >>,
     artifacts |-> <<GenerateAssets(StoredProduct)>>,
     started_at |-> 1, completed_at |-> 16]

Stores ==
    { [runs |-> <<>>, problems |-> <<>>, products |-> <<>>, listings |-> <<>>,
       dirs |-> {}, clock |-> NoTime + 1, next_id |-> BogusId + 1],
      [runs |-> BuildFailedRun.id :> BuildFailedRun,
       problems |-> <<StoredProblem>>, products |-> <<StoredProduct>>,
       listings |-> <<>>, dirs |-> {},
       clock |-> BuildFailedRun.logs[Len(BuildFailedRun.logs)].ts + 1,
       next_id |-> StoredProduct.id + 1],
      [runs |-> SucceededRun.id :> SucceededRun,
       problems |-> <<StoredProblem>>, products |-> <<StoredProduct>>,
       listings |-> <<StoredListing>>, dirs |-> {GenerateAssets(StoredProduct)},
       clock |-> SucceededRun.logs[Len(SucceededRun.logs)].ts + 1,
       next_id |-> StoredListing.id + 1] }

Init ==
    /\ current_run = NoId
    /\ heap = <<>>
    /\ \E s \in Stores :
          /\ db_runs = s.runs
          /\ db_problems = s.problems
          /\ db_products = s.products
          /\ db_listings = s.listings
          /\ artifact_dirs = s.dirs
          /\ clock = s.clock
          /\ next_id = s.next_id
    /\ adapters \in AdapterConfigs
    /\ frame = [c \in Calls |-> IdleFrame]
    /\ hist = [c \in Calls |-> NoHist]
    /\ DiscoverIdle
    /\ CallIdle

\* ---------------------------------------------------------------- Database
\* PipelineRun(stage=start_from, status=RUNNING) with its field defaults.
PipelineRun(id, stage, now) ==
    [id |-> id, stage |-> stage, status |-> "running",
     problem_id |-> NoId, product_id |-> NoId, listing_id |-> NoId,
     error_message |-> NoMessage, logs |-> <<>>, artifacts |-> <<>>,
     started_at |-> now, completed_at |-> NoTime]

\* save_pipeline_run: a new row with every field of the run.
SavePipelineRun(db, run) == db @@ (run.id :> run)

\* update_pipeline_run that forgets to copy error_message.
UpdatePipelineRunNoError(db, run) ==
    IF run.id \in DOMAIN db
    THEN [db EXCEPT ![run.id] =
            [@ EXCEPT !.stage = run.stage, !.status = run.status,
                      !.problem_id = run.problem_id, !.product_id = run.product_id,
                      !.listing_id = run.listing_id,
                      !.logs = run.logs, !.artifacts = run.artifacts,
                      !.completed_at = run.completed_at]]
    ELSE db

\* update_pipeline_run: the row of run.id, if there is one, takes every field
\* of the run but started_at; no row, no effect.
UpdatePipelineRun(db, run) ==
    IF run.id \in DOMAIN db
    THEN [db EXCEPT ![run.id] =
            [@ EXCEPT !.stage = run.stage, !.status = run.status,
                      !.problem_id = run.problem_id, !.product_id = run.product_id,
                      !.listing_id = run.listing_id,
                      !.error_message = run.error_message,
                      !.logs = run.logs, !.artifacts = run.artifacts,
                      !.completed_at = run.completed_at]]
    ELSE db

SaveProblem(db, problem) == Append(db, problem)

\* get_problem: the first row with that id, or None.
GetProblem(db, id) ==
    IF \E i \in 1..Len(db) : db[i].id = id
    THEN db[CHOOSE i \in 1..Len(db) :
                /\ db[i].id = id
                /\ \A j \in 1..(i - 1) : db[j].id # id]
    ELSE NoProblem

\* save_product without session.commit(): the row is lost when the session closes.
SaveProductUncommitted(db, product) == db

SaveProduct(db, product) == Append(db, product)

\* get_products(limit): newest first.
RECURSIVE Reverse(_)
Reverse(s) == IF s = <<>> THEN <<>> ELSE Append(Reverse(Tail(s)), Head(s))

GetProducts(db, limit) == Take(Reverse(db), limit)

SaveListing(db, listing) == Append(db, listing)

\* ------------------------------------------------------------ run helpers
\* _log: logs.append("[" + now + "] " + message); message is a literal text
\* followed by an interpolated value (detail, a Message).
LogEntry(now, text, detail) == [ts |-> now, text |-> text, detail |-> detail]

\* _log assigning a new list instead of appending to the run's own.
LogOverwrite(h, r, now, text, detail) ==
    [h EXCEPT ![r].logs = <<LogEntry(now, text, detail)>>]

Log(h, r, now, text, detail) ==
    [h EXCEPT ![r].logs = Append(@, LogEntry(now, text, detail))]

\* return await self._fail_run(msg), called in the try body.
CallFailRun(f, msg) == [f EXCEPT !.pc = "L224", !.fail_msg = msg]

\* The except clause of line 122 reporting a fixed text without str(e).
HandlerNoCause(f, cause) ==
    [f EXCEPT !.pc = "L224", !.in_handler = TRUE, !.exc = cause,
              !.fail_msg = Text("Pipeline error")]

\* except Exception as e: return await self._fail_run(f"Pipeline error: {str(e)}")
Handler(f, cause) ==
    [f EXCEPT !.pc = "L224", !.in_handler = TRUE, !.exc = cause,
              !.fail_msg = Message("Pipeline error: ", NoId, cause)]

\* An exception that leaves run_full_pipeline.
Escape(f, cause) == [f EXCEPT !.pc = "done", !.outcome = "raised", !.exc = cause]

\* Raise without the except clause of line 122: every exception leaves the call.
RaiseUncaught(f, cause) == Escape(f, cause)

\* An exception raised in a statement of the try body, outside the handler.
Raise(f, cause) == IF f.in_handler THEN Escape(f, cause) ELSE Handler(f, cause)

\* The stages a run executes: those from start_from on (lines 79, 86, 104).
RunsFrom(start_from, stages) == start_from \in stages

\* Stage 4 gate (line 104) and what follows it.
Stage4(f) ==
    IF RunsFrom(f.start_from, {"discover", "define", "build", "package"})
    THEN "L110" ELSE "L216"

\* Stage 3 gate (line 86) and the 'product' not in locals() test (line 92).
Stage3(f) ==
    IF RunsFrom(f.start_from, {"discover", "define", "build"})
    THEN (IF ~f.has_product THEN "L93" ELSE "L174")
    ELSE Stage4(f)

\* Stage 2 entered whatever start_from is.
Stage2Ungated(f) == "L154"

\* Stage 2 gate (line 79).
Stage2(f) ==
    IF RunsFrom(f.start_from, {"discover", "define"}) THEN "L154" ELSE Stage3(f)

\* Stage 1 gate (lines 64, 71).
Stage1(f) ==
    IF f.start_from = "discover" THEN [f EXCEPT !.pc = "L127"]
    ELSE IF f.problem_id = NoId
         THEN CallFailRun(f, Text("Problem ID required when skipping discovery"))
         ELSE [f EXCEPT !.pc = "L73"]

\* The store write of a statement either commits or raises.
StoreFault(c) == [hist EXCEPT ![c].store_fault = TRUE]

\* A committed save_problem / save_product / save_listing of a call.
Saved(c, table, id) ==
    [hist EXCEPT ![c].saved = @ \cup {[table |-> table, id |-> id]}]

\* ------------------------------------------------------ run_full_pipeline
\* Lines 56-59: self.current_run = PipelineRun(stage=start_from,
\* status=RUNNING), whatever self.current_run was.
StartRun(c, start_from, problem_id) ==
    /\ frame[c].pc = "idle"
    /\ frame' = [frame EXCEPT ![c] =
                    [IdleFrame EXCEPT !.pc = "L60", !.start_from = start_from,
                                      !.problem_id = problem_id]]
    /\ heap' = heap @@ (next_id :> PipelineRun(next_id, start_from, clock))
    /\ current_run' = next_id
    /\ next_id' = next_id + 1
    /\ clock' = clock + 1
    /\ hist' = [hist EXCEPT ![c].run = next_id]
    /\ UNCHANGED <<db_runs, db_problems, db_products, db_listings, adapters,
                   artifact_dirs, discover_vars, call_vars>>

\* A call of run_full_pipeline(problem_id, start_from) starts; the calls of
\* this specification follow one another.
RunFullPipeline(c) ==
    /\ \A d \in Calls : d # c => frame[d].pc = (IF d < c THEN "done" ELSE "idle")
    /\ \E sf \in StageSet :
       \E pid \in {NoId, BogusId} \cup {db_problems[i].id : i \in 1..Len(db_problems)} :
          StartRun(c, sf, pid)
    /\ UNCHANGED host_vars

\* Line 60: self.db.save_pipeline_run(self.current_run), outside the try.
SaveRun(c) ==
    /\ frame[c].pc = "L60"
    /\ \/ /\ db_runs' = SavePipelineRun(db_runs, heap[current_run])
          /\ frame' = [frame EXCEPT ![c] = Stage1(@)]
          /\ hist' = hist
       \/ /\ db_runs' = db_runs
          /\ frame' = [frame EXCEPT ![c] = Escape(@, StoreError)]
          /\ hist' = StoreFault(c)
    /\ UNCHANGED <<current_run, heap, db_problems, db_products, db_listings,
                   adapters, artifact_dirs,
                   clock, next_id,
                   discover_vars, call_vars, host_vars>>

\* ----------------------------------------------------- _run_discover_stage
\* Line 127: self._log("Starting discovery stage...")
DiscoverLogStart(c) ==
    /\ frame[c].pc = "L127"
    /\ heap' = Log(heap, current_run, clock, "Starting discovery stage...", NoMessage)
    /\ clock' = clock + 1
    /\ frame' = [frame EXCEPT ![c].pc = "L128"]
    /\ hist' = [hist EXCEPT ![c].started = Append(@, "discover")]
    /\ UNCHANGED <<current_run, db_runs, db_problems, db_products, db_listings,
                   adapters, artifact_dirs,
                   next_id,
                   discover_vars, call_vars, host_vars>>

\* Line 128: self.current_run.stage = PipelineStage.DISCOVER
DiscoverSetStage(c) ==
    /\ frame[c].pc = "L128"
    /\ heap' = [heap EXCEPT ![current_run].stage = "discover"]
    /\ frame' = [frame EXCEPT ![c].pc = "L129"]
    /\ UNCHANGED <<current_run, db_runs, db_problems, db_products, db_listings,
                   adapters, artifact_dirs,
                   clock, next_id, hist,
                   discover_vars, call_vars, host_vars>>

\* Line 129: self.db.update_pipeline_run(self.current_run), before the inner try.
DiscoverPersist(c) ==
    /\ frame[c].pc = "L129"
    /\ \/ /\ db_runs' = UpdatePipelineRun(db_runs, heap[current_run])
          /\ frame' = [frame EXCEPT ![c].pc = "L132"]
          /\ hist' = [hist EXCEPT ![c].entered = Append(@, "discover")]
       \/ /\ db_runs' = db_runs
          /\ frame' = [frame EXCEPT ![c] = Raise(@, StoreError)]
          /\ hist' = StoreFault(c)
    /\ UNCHANGED <<current_run, heap, db_problems, db_products, db_listings,
                   adapters, artifact_dirs,
                   clock, next_id,
                   discover_vars, call_vars, host_vars>>

\* Lines 132-138: problems = await self.discovery_engine.discover(limit=10);
\* the engine returns its ranked list or raises; problems[0] is selected.
\* With no adapter registered discover runs its loop zero times and ranks an
\* empty list: nothing in it can raise.
DiscoverEngine(c) ==
    /\ frame[c].pc = "L132"
    /\ \/ \E outcomes \in [1..Len(adapters) -> AdapterOutcomes] :
            LET problems == Discover(outcomes, DiscoverLimit) IN
            /\ frame' = [frame EXCEPT ![c] =
                  IF problems = <<>>
                  THEN [@ EXCEPT !.pc = "L134"]
                  ELSE [@ EXCEPT !.pc = "L139",
                                 !.problem = WithId(problems[1], next_id)]]
            /\ next_id' = IF problems = <<>> THEN next_id ELSE next_id + 1
            /\ hist' = [hist EXCEPT ![c].discovered = problems]
       \/ \E e \in EngineErrors :
            /\ adapters # <<>>
            /\ frame' = [frame EXCEPT ![c] = [@ EXCEPT !.pc = "L149", !.exc = e]]
            /\ next_id' = next_id
            /\ hist' = [hist EXCEPT ![c].engine_raised = Append(@, "discover")]
    /\ UNCHANGED <<current_run, heap, db_runs, db_problems, db_products,
                   db_listings, adapters, artifact_dirs, clock,
                   discover_vars, call_vars, host_vars>>

\* Lines 134-135 without the test of lines 66-67: the None result is taken
\* for a problem and the run goes on.
DiscoverNoneUnchecked(c) ==
    /\ frame[c].pc = "L134"
    /\ heap' = Log(heap, current_run, clock, "No problems discovered", NoMessage)
    /\ clock' = clock + 1
    /\ frame' = [frame EXCEPT ![c].pc = "L68"]
    /\ UNCHANGED <<current_run, db_runs, db_problems, db_products, db_listings,
                   adapters, artifact_dirs, next_id, hist,
                   discover_vars, call_vars, host_vars>>

\* Lines 134-135 and 66-67: self._log("No problems discovered"); return None;
\* the caller then calls _fail_run("No problems discovered").
DiscoverNone(c) ==
    /\ frame[c].pc = "L134"
    /\ heap' = Log(heap, current_run, clock, "No problems discovered", NoMessage)
    /\ clock' = clock + 1
    /\ frame' = [frame EXCEPT ![c] =
                    CallFailRun(@, Text("No problems discovered"))]
    /\ UNCHANGED <<current_run, db_runs, db_problems, db_products, db_listings,
                   adapters, artifact_dirs,
                   next_id, hist,
                   discover_vars, call_vars, host_vars>>

\* Line 139: self.db.save_problem(problem), inside the inner try.
DiscoverSaveProblem(c) ==
    /\ frame[c].pc = "L139"
    /\ \/ /\ db_problems' = SaveProblem(db_problems, frame[c].problem)
          /\ frame' = [frame EXCEPT ![c].pc = "L141"]
          /\ hist' = Saved(c, "problems", frame[c].problem.id)
       \/ /\ db_problems' = db_problems
          /\ frame' = [frame EXCEPT ![c] = [@ EXCEPT !.pc = "L149", !.exc = StoreError]]
          /\ hist' = StoreFault(c)
    /\ UNCHANGED <<current_run, heap, db_runs, db_products, db_listings,
                   adapters, artifact_dirs,
                   clock, next_id,
                   discover_vars, call_vars, host_vars>>

\* Lines 141-146: the two result log lines; return problem.
DiscoverLogResult(c) ==
    /\ frame[c].pc = "L141"
    /\ heap' = Log(Log(heap, current_run, clock, "Discovered problem: ",
                       Text(frame[c].problem.title)),
                   current_run, clock + 1, "Confidence: , Frequency: , Recency: ",
                   NoMessage)
    /\ clock' = clock + 2
    /\ frame' = [frame EXCEPT ![c].pc = "L68"]
    /\ UNCHANGED <<current_run, db_runs, db_problems, db_products, db_listings,
                   adapters, artifact_dirs,
                   next_id, hist,
                   discover_vars, call_vars, host_vars>>

\* Lines 148-150: self._log(f"Discovery stage error: {e}"); raise
DiscoverLogError(c) ==
    /\ frame[c].pc = "L149"
    /\ heap' = Log(heap, current_run, clock, "Discovery stage error: ", Cause(frame[c].exc))
    /\ clock' = clock + 1
    /\ frame' = [frame EXCEPT ![c] = Raise(@, frame[c].exc)]
    /\ UNCHANGED <<current_run, db_runs, db_problems, db_products, db_listings,
                   adapters, artifact_dirs,
                   next_id, hist,
                   discover_vars, call_vars, host_vars>>

RunDiscoverStage(c) ==
    \/ DiscoverLogStart(c)
    \/ DiscoverSetStage(c)
    \/ DiscoverPersist(c)
    \/ DiscoverEngine(c)
    \/ DiscoverNone(c)
    \/ DiscoverSaveProblem(c)
    \/ DiscoverLogResult(c)
    \/ DiscoverLogError(c)

\* Line 68: self.current_run.problem_id = problem.id (after discovery).
SetProblemIdDiscovered(c) ==
    /\ frame[c].pc = "L68"
    /\ heap' = [heap EXCEPT ![current_run].problem_id = frame[c].problem.id]
    /\ frame' = [frame EXCEPT ![c].pc = Stage2(frame[c])]
    /\ UNCHANGED <<current_run, db_runs, db_problems, db_products, db_listings,
                   adapters, artifact_dirs,
                   clock, next_id, hist,
                   discover_vars, call_vars, host_vars>>

\* Lines 73-76 without the test of lines 74-75: whatever get_problem returned
\* is taken for the problem.
LoadProblemUnchecked(c) ==
    /\ frame[c].pc = "L73"
    /\ frame' = [frame EXCEPT ![c] =
          [@ EXCEPT !.pc = "L76",
                    !.problem = GetProblem(db_problems, frame[c].problem_id)]]
    /\ UNCHANGED <<current_run, heap, db_runs, db_problems, db_products,
                   db_listings, adapters, artifact_dirs, clock, next_id, hist,
                   discover_vars, call_vars, host_vars>>

\* Lines 73-75: problem = self.db.get_problem(problem_id); not found fails.
LoadProblem(c) ==
    /\ frame[c].pc = "L73"
    /\ LET problem == GetProblem(db_problems, frame[c].problem_id) IN
       frame' = [frame EXCEPT ![c] =
          IF problem = NoProblem
          THEN CallFailRun(@, Message("Problem  not found", frame[c].problem_id, ""))
          ELSE [@ EXCEPT !.pc = "L76", !.problem = problem]]
    /\ UNCHANGED <<current_run, heap, db_runs, db_problems, db_products,
                   db_listings, adapters, artifact_dirs, clock, next_id, hist,
                   discover_vars, call_vars, host_vars>>

\* Line 76: self.current_run.problem_id = problem.id (loaded problem).
SetProblemIdLoaded(c) ==
    /\ frame[c].pc = "L76"
    /\ heap' = [heap EXCEPT ![current_run].problem_id = frame[c].problem.id]
    /\ frame' = [frame EXCEPT ![c].pc = Stage2(frame[c])]
    /\ UNCHANGED <<current_run, db_runs, db_problems, db_products, db_listings,
                   adapters, artifact_dirs,
                   clock, next_id, hist,
                   discover_vars, call_vars, host_vars>>

\* ------------------------------------------------------- _run_define_stage
\* Line 154: self._log("Starting definition stage...")
DefineLogStart(c) ==
    /\ frame[c].pc = "L154"
    /\ heap' = Log(heap, current_run, clock, "Starting definition stage...", NoMessage)
    /\ clock' = clock + 1
    /\ frame' = [frame EXCEPT ![c].pc = "L155"]
    /\ hist' = [hist EXCEPT ![c].started = Append(@, "define")]
    /\ UNCHANGED <<current_run, db_runs, db_problems, db_products, db_listings,
                   adapters, artifact_dirs,
                   next_id,
                   discover_vars, call_vars, host_vars>>

\* Line 155: self.current_run.stage = PipelineStage.DEFINE
DefineSetStage(c) ==
    /\ frame[c].pc = "L155"
    /\ heap' = [heap EXCEPT ![current_run].stage = "define"]
    /\ frame' = [frame EXCEPT ![c].pc = "L156"]
    /\ UNCHANGED <<current_run, db_runs, db_problems, db_products, db_listings,
                   adapters, artifact_dirs,
                   clock, next_id, hist,
                   discover_vars, call_vars, host_vars>>

\* _run_define_stage without the update of line 156 before the stage work.
DefinePersistSkipped(c) ==
    /\ frame[c].pc = "L156"
    /\ frame' = [frame EXCEPT ![c].pc = "L159"]
    /\ UNCHANGED <<current_run, heap, db_runs, db_problems, db_products, db_listings,
                   adapters, artifact_dirs, clock, next_id, hist,
                   discover_vars, call_vars, host_vars>>

\* Line 156: self.db.update_pipeline_run(self.current_run)
DefinePersist(c) ==
    /\ frame[c].pc = "L156"
    /\ \/ /\ db_runs' = UpdatePipelineRun(db_runs, heap[current_run])
          /\ frame' = [frame EXCEPT ![c].pc = "L159"]
          /\ hist' = [hist EXCEPT ![c].entered = Append(@, "define")]
       \/ /\ db_runs' = db_runs
          /\ frame' = [frame EXCEPT ![c] = Raise(@, StoreError)]
          /\ hist' = StoreFault(c)
    /\ UNCHANGED <<current_run, heap, db_problems, db_products, db_listings,
                   adapters, artifact_dirs,
                   clock, next_id,
                   discover_vars, call_vars, host_vars>>

\* Line 159: product = await self.definition_engine.define_product(problem)
DefineEngine(c) ==
    /\ frame[c].pc = "L159"
    /\ \/ /\ frame' = [frame EXCEPT ![c] =
                  [@ EXCEPT !.pc = "L160",
                            !.product = DefineProduct(frame[c].problem, next_id)]]
          /\ next_id' = next_id + 1
          /\ hist' = hist
       \/ \E e \in EngineErrors :
            /\ frame' = [frame EXCEPT ![c] = [@ EXCEPT !.pc = "L169", !.exc = e]]
            /\ next_id' = next_id
            /\ hist' = [hist EXCEPT ![c].engine_raised = Append(@, "define")]
    /\ UNCHANGED <<current_run, heap, db_runs, db_problems, db_products,
                   db_listings, adapters, artifact_dirs, clock,
                   discover_vars, call_vars, host_vars>>

\* Line 160: self.db.save_product(product), inside the inner try.
DefineSaveProduct(c) ==
    /\ frame[c].pc = "L160"
    /\ \/ /\ db_products' = SaveProduct(db_products, frame[c].product)
          /\ frame' = [frame EXCEPT ![c].pc = "L162"]
          /\ hist' = Saved(c, "products", frame[c].product.id)
       \/ /\ db_products' = db_products
          /\ frame' = [frame EXCEPT ![c] = [@ EXCEPT !.pc = "L169", !.exc = StoreError]]
          /\ hist' = StoreFault(c)
    /\ UNCHANGED <<current_run, heap, db_runs, db_problems, db_listings,
                   adapters, artifact_dirs,
                   clock, next_id,
                   discover_vars, call_vars, host_vars>>

\* Lines 162-166 and 80: the three result log lines; return product, which
\* binds the local 'product' of run_full_pipeline.
DefineLogResult(c) ==
    /\ frame[c].pc = "L162"
    /\ heap' = Log(Log(Log(heap, current_run, clock, "Defined product: ", NoMessage),
                       current_run, clock + 1, "Type: ", NoMessage),
                   current_run, clock + 2, "Features: ", NoMessage)
    /\ clock' = clock + 3
    /\ frame' = [frame EXCEPT ![c] = [@ EXCEPT !.pc = "L83", !.has_product = TRUE]]
    /\ UNCHANGED <<current_run, db_runs, db_problems, db_products, db_listings,
                   adapters, artifact_dirs,
                   next_id, hist,
                   discover_vars, call_vars, host_vars>>

\* The except clause of line 168 re-raising without its log line.
DefineErrorUnlogged(c) ==
    /\ frame[c].pc = "L169"
    /\ frame' = [frame EXCEPT ![c] = Raise(@, frame[c].exc)]
    /\ UNCHANGED <<current_run, heap, db_runs, db_problems, db_products, db_listings,
                   adapters, artifact_dirs, clock, next_id, hist,
                   discover_vars, call_vars, host_vars>>

\* Lines 168-170: self._log(f"Definition stage error: {e}"); raise
DefineLogError(c) ==
    /\ frame[c].pc = "L169"
    /\ heap' = Log(heap, current_run, clock, "Definition stage error: ",
                   Cause(frame[c].exc))
    /\ clock' = clock + 1
    /\ frame' = [frame EXCEPT ![c] = Raise(@, frame[c].exc)]
    /\ UNCHANGED <<current_run, db_runs, db_problems, db_products, db_listings,
                   adapters, artifact_dirs,
                   next_id, hist,
                   discover_vars, call_vars, host_vars>>

RunDefineStage(c) ==
    \/ DefineLogStart(c)
    \/ DefineSetStage(c)
    \/ DefinePersist(c)
    \/ DefineEngine(c)
    \/ DefineSaveProduct(c)
    \/ DefineLogResult(c)
    \/ DefineLogError(c)

\* Line 83: self.current_run.product_id = product.id
SetProductId(c) ==
    /\ frame[c].pc = "L83"
    /\ heap' = [heap EXCEPT ![current_run].product_id = frame[c].product.id]
    /\ frame' = [frame EXCEPT ![c].pc = Stage3(frame[c])]
    /\ UNCHANGED <<current_run, db_runs, db_problems, db_products, db_listings,
                   adapters, artifact_dirs,
                   clock, next_id, hist,
                   discover_vars, call_vars, host_vars>>

\* Lines 93-96: products = self.db.get_products(limit=1); none fails the run,
\* else product = products[0].
ResolveProduct(c) ==
    /\ frame[c].pc = "L93"
    /\ LET products == GetProducts(db_products, 1) IN
       /\ frame' = [frame EXCEPT ![c] =
             IF products = <<>>
             THEN CallFailRun(@, Text("No product found to build"))
             ELSE [@ EXCEPT !.pc = "L174", !.product = products[1],
                            !.has_product = TRUE]]
       /\ hist' = IF products = <<>> THEN hist
                  ELSE [hist EXCEPT ![c].resolved = products[1].id,
                                    ![c].prior_artifact =
                                        GenerateAssets(products[1]) \in artifact_dirs]
    /\ UNCHANGED <<current_run, heap, db_runs, db_problems, db_products,
                   db_listings, adapters, artifact_dirs, clock, next_id,
                   discover_vars, call_vars, host_vars>>

\* -------------------------------------------------------- _run_build_stage
\* Line 174: self._log("Starting build stage...")
BuildLogStart(c) ==
    /\ frame[c].pc = "L174"
    /\ heap' = Log(heap, current_run, clock, "Starting build stage...", NoMessage)
    /\ clock' = clock + 1
    /\ frame' = [frame EXCEPT ![c].pc = "L175"]
    /\ hist' = [hist EXCEPT ![c].started = Append(@, "build")]
    /\ UNCHANGED <<current_run, db_runs, db_problems, db_products, db_listings,
                   adapters, artifact_dirs,
                   next_id,
                   discover_vars, call_vars, host_vars>>

\* _run_build_stage recording the stage of the executor it was copied from.
BuildSetStageDefine(c) ==
    /\ frame[c].pc = "L175"
    /\ heap' = [heap EXCEPT ![current_run].stage = "define"]
    /\ frame' = [frame EXCEPT ![c].pc = "L176"]
    /\ UNCHANGED <<current_run, db_runs, db_problems, db_products, db_listings,
                   adapters, artifact_dirs, clock, next_id, hist,
                   discover_vars, call_vars, host_vars>>

\* Line 175: self.current_run.stage = PipelineStage.BUILD
BuildSetStage(c) ==
    /\ frame[c].pc = "L175"
    /\ heap' = [heap EXCEPT ![current_run].stage = "build"]
    /\ frame' = [frame EXCEPT ![c].pc = "L176"]
    /\ UNCHANGED <<current_run, db_runs, db_problems, db_products, db_listings,
                   adapters, artifact_dirs,
                   clock, next_id, hist,
                   discover_vars, call_vars, host_vars>>

\* Line 176: self.db.update_pipeline_run(self.current_run)
BuildPersist(c) ==
    /\ frame[c].pc = "L176"
    /\ \/ /\ db_runs' = UpdatePipelineRun(db_runs, heap[current_run])
          /\ frame' = [frame EXCEPT ![c].pc = "L179"]
          /\ hist' = [hist EXCEPT ![c].entered = Append(@, "build")]
       \/ /\ db_runs' = db_runs
          /\ frame' = [frame EXCEPT ![c] = Raise(@, StoreError)]
          /\ hist' = StoreFault(c)
    /\ UNCHANGED <<current_run, heap, db_problems, db_products, db_listings,
                   adapters, artifact_dirs,
                   clock, next_id,
                   discover_vars, call_vars, host_vars>>

\* Line 179: product_dir = await self.content_engine.generate_assets(product).
\* The engine makes the directory first (mkdir, exist_ok), then writes the
\* files: when it raises, the directory was made or it was not.
BuildEngine(c) ==
    /\ frame[c].pc = "L179"
    /\ \/ /\ frame' = [frame EXCEPT ![c] =
                  [@ EXCEPT !.pc = "L181",
                            !.product_dir = GenerateAssets(frame[c].product)]]
          /\ artifact_dirs' = artifact_dirs \cup {GenerateAssets(frame[c].product)}
          /\ hist' = hist
       \/ \E e \in EngineErrors, made \in BOOLEAN :
            /\ frame' = [frame EXCEPT ![c] = [@ EXCEPT !.pc = "L187", !.exc = e]]
            /\ artifact_dirs' = IF made
                                THEN artifact_dirs \cup {GenerateAssets(frame[c].product)}
                                ELSE artifact_dirs
            /\ hist' = [hist EXCEPT ![c].engine_raised = Append(@, "build")]
    /\ UNCHANGED <<current_run, heap, db_runs, db_problems, db_products,
                   db_listings, adapters, clock, next_id,
                   discover_vars, call_vars, host_vars>>

\* Lines 181-184: the two result log lines; return product_dir.
BuildLogResult(c) ==
    /\ frame[c].pc = "L181"
    /\ heap' = Log(Log(heap, current_run, clock, "Generated assets in: ", NoMessage),
                   current_run, clock + 1, "Files created: ", NoMessage)
    /\ clock' = clock + 2
    /\ frame' = [frame EXCEPT ![c].pc = "L101"]
    /\ UNCHANGED <<current_run, db_runs, db_problems, db_products, db_listings,
                   adapters, artifact_dirs,
                   next_id, hist,
                   discover_vars, call_vars, host_vars>>

\* Lines 186-188: self._log(f"Build stage error: {e}"); raise
BuildLogError(c) ==
    /\ frame[c].pc = "L187"
    /\ heap' = Log(heap, current_run, clock, "Build stage error: ", Cause(frame[c].exc))
    /\ clock' = clock + 1
    /\ frame' = [frame EXCEPT ![c] = Raise(@, frame[c].exc)]
    /\ UNCHANGED <<current_run, db_runs, db_problems, db_products, db_listings,
                   adapters, artifact_dirs,
                   next_id, hist,
                   discover_vars, call_vars, host_vars>>

RunBuildStage(c) ==
    \/ BuildLogStart(c)
    \/ BuildSetStage(c)
    \/ BuildPersist(c)
    \/ BuildEngine(c)
    \/ BuildLogResult(c)
    \/ BuildLogError(c)

\* Line 101 left out: the asset directory is not recorded on the run.
AppendArtifactSkipped(c) ==
    /\ frame[c].pc = "L101"
    /\ frame' = [frame EXCEPT ![c].pc = Stage4(frame[c])]
    /\ UNCHANGED <<current_run, heap, db_runs, db_problems, db_products, db_listings,
                   adapters, artifact_dirs, clock, next_id, hist,
                   discover_vars, call_vars, host_vars>>

\* Line 101: self.current_run.artifacts.append(str(product_dir))
AppendArtifact(c) ==
    /\ frame[c].pc = "L101"
    /\ heap' = [heap EXCEPT ![current_run].artifacts = Append(@, frame[c].product_dir)]
    /\ frame' = [frame EXCEPT ![c].pc = Stage4(frame[c])]
    /\ UNCHANGED <<current_run, db_runs, db_problems, db_products, db_listings,
                   adapters, artifact_dirs,
                   clock, next_id, hist,
                   discover_vars, call_vars, host_vars>>

\* Lines 110-114 without the test of line 111: packaging goes ahead on whatever
\* line 110 produced.
LastArtifactUnchecked(c) ==
    /\ frame[c].pc = "L110"
    /\ LET artifacts == heap[current_run].artifacts IN
       frame' = [frame EXCEPT ![c] =
          [@ EXCEPT !.pc = "L196",
                    !.product_dir = IF artifacts = <<>> THEN NoId
                                    ELSE artifacts[Len(artifacts)]]]
    /\ hist' = [hist EXCEPT ![c].no_artifact = heap[current_run].artifacts = <<>>]
    /\ UNCHANGED <<current_run, heap, db_runs, db_problems, db_products,
                   db_listings, adapters, artifact_dirs, clock, next_id,
                   discover_vars, call_vars, host_vars>>

\* Lines 110-112: product_dir = Path(artifacts[-1]) if artifacts else None;
\* no artifact fails the run.
LastArtifact(c) ==
    /\ frame[c].pc = "L110"
    /\ LET artifacts == heap[current_run].artifacts IN
       frame' = [frame EXCEPT ![c] =
          IF artifacts = <<>>
          THEN CallFailRun([@ EXCEPT !.product_dir = NoId],
                           Text("No product artifacts found"))
          ELSE [@ EXCEPT !.pc = "L196", !.product_dir = artifacts[Len(artifacts)]]]
    /\ hist' = [hist EXCEPT ![c].no_artifact = heap[current_run].artifacts = <<>>]
    /\ UNCHANGED <<current_run, heap, db_runs, db_problems, db_products,
                   db_listings, adapters, artifact_dirs, clock, next_id,
                   discover_vars, call_vars, host_vars>>

\* ------------------------------------------------------ _run_package_stage
\* Line 196: self._log("Starting packaging stage...")
PackageLogStart(c) ==
    /\ frame[c].pc = "L196"
    /\ heap' = Log(heap, current_run, clock, "Starting packaging stage...", NoMessage)
    /\ clock' = clock + 1
    /\ frame' = [frame EXCEPT ![c].pc = "L197"]
    /\ hist' = [hist EXCEPT ![c].started = Append(@, "package")]
    /\ UNCHANGED <<current_run, db_runs, db_problems, db_products, db_listings,
                   adapters, artifact_dirs,
                   next_id,
                   discover_vars, call_vars, host_vars>>

\* Line 197: self.current_run.stage = PipelineStage.PACKAGE
PackageSetStage(c) ==
    /\ frame[c].pc = "L197"
    /\ heap' = [heap EXCEPT ![current_run].stage = "package"]
    /\ frame' = [frame EXCEPT ![c].pc = "L198"]
    /\ UNCHANGED <<current_run, db_runs, db_problems, db_products, db_listings,
                   adapters, artifact_dirs,
                   clock, next_id, hist,
                   discover_vars, call_vars, host_vars>>

\* Line 198: self.db.update_pipeline_run(self.current_run)
PackagePersist(c) ==
    /\ frame[c].pc = "L198"
    /\ \/ /\ db_runs' = UpdatePipelineRun(db_runs, heap[current_run])
          /\ frame' = [frame EXCEPT ![c].pc = "L201"]
          /\ hist' = [hist EXCEPT ![c].entered = Append(@, "package")]
       \/ /\ db_runs' = db_runs
          /\ frame' = [frame EXCEPT ![c] = Raise(@, StoreError)]
          /\ hist' = StoreFault(c)
    /\ UNCHANGED <<current_run, heap, db_problems, db_products, db_listings,
                   adapters, artifact_dirs,
                   clock, next_id,
                   discover_vars, call_vars, host_vars>>

\* Line 201: listing = await self.packaging_engine.create_listing(product, product_dir)
PackageEngine(c) ==
    /\ frame[c].pc = "L201"
    /\ \/ /\ frame' = [frame EXCEPT ![c] =
                  [@ EXCEPT !.pc = "L202",
                            !.listing = CreateListing(frame[c].product,
                                                      frame[c].product_dir, next_id)]]
          /\ next_id' = next_id + 1
          /\ hist' = hist
       \/ \E e \in EngineErrors :
            /\ frame' = [frame EXCEPT ![c] = [@ EXCEPT !.pc = "L211", !.exc = e]]
            /\ next_id' = next_id
            /\ hist' = [hist EXCEPT ![c].engine_raised = Append(@, "package")]
    /\ UNCHANGED <<current_run, heap, db_runs, db_problems, db_products,
                   db_listings, adapters, artifact_dirs, clock,
                   discover_vars, call_vars, host_vars>>

\* Line 202: self.db.save_listing(listing), inside the inner try.
PackageSaveListing(c) ==
    /\ frame[c].pc = "L202"
    /\ \/ /\ db_listings' = SaveListing(db_listings, frame[c].listing)
          /\ frame' = [frame EXCEPT ![c].pc = "L204"]
          /\ hist' = Saved(c, "listings", frame[c].listing.id)
       \/ /\ db_listings' = db_listings
          /\ frame' = [frame EXCEPT ![c] = [@ EXCEPT !.pc = "L211", !.exc = StoreError]]
          /\ hist' = StoreFault(c)
    /\ UNCHANGED <<current_run, heap, db_runs, db_problems, db_products,
                   adapters, artifact_dirs,
                   clock, next_id,
                   discover_vars, call_vars, host_vars>>

\* Lines 204-208: the three result log lines; return listing.
PackageLogResult(c) ==
    /\ frame[c].pc = "L204"
    /\ heap' = Log(Log(Log(heap, current_run, clock,
                           "Created marketplace listing: ", NoMessage),
                       current_run, clock + 1, "Pricing: ", NoMessage),
                   current_run, clock + 2, "Bundle: ", NoMessage)
    /\ clock' = clock + 3
    /\ frame' = [frame EXCEPT ![c].pc = "L117"]
    /\ UNCHANGED <<current_run, db_runs, db_problems, db_products, db_listings,
                   adapters, artifact_dirs,
                   next_id, hist,
                   discover_vars, call_vars, host_vars>>

\* Lines 210-212: self._log(f"Packaging stage error: {e}"); raise
PackageLogError(c) ==
    /\ frame[c].pc = "L211"
    /\ heap' = Log(heap, current_run, clock, "Packaging stage error: ",
                   Cause(frame[c].exc))
    /\ clock' = clock + 1
    /\ frame' = [frame EXCEPT ![c] = Raise(@, frame[c].exc)]
    /\ UNCHANGED <<current_run, db_runs, db_problems, db_products, db_listings,
                   adapters, artifact_dirs,
                   next_id, hist,
                   discover_vars, call_vars, host_vars>>

RunPackageStage(c) ==
    \/ PackageLogStart(c)
    \/ PackageSetStage(c)
    \/ PackagePersist(c)
    \/ PackageEngine(c)
    \/ PackageSaveListing(c)
    \/ PackageLogResult(c)
    \/ PackageLogError(c)

\* Line 117: self.current_run.listing_id = listing.id
SetListingId(c) ==
    /\ frame[c].pc = "L117"
    /\ heap' = [heap EXCEPT ![current_run].listing_id = frame[c].listing.id]
    /\ frame' = [frame EXCEPT ![c].pc = "L216"]
    /\ UNCHANGED <<current_run, db_runs, db_problems, db_products, db_listings,
                   adapters, artifact_dirs,
                   clock, next_id, hist,
                   discover_vars, call_vars, host_vars>>

\* ------------------------------------------------------------ _complete_run
\* Line 216: self.current_run.status = PipelineStatus.SUCCESS
CompleteSetStatus(c) ==
    /\ frame[c].pc = "L216"
    /\ heap' = [heap EXCEPT ![current_run].status = "success"]
    /\ frame' = [frame EXCEPT ![c].pc = "L217"]
    /\ UNCHANGED <<current_run, db_runs, db_problems, db_products, db_listings,
                   adapters, artifact_dirs,
                   clock, next_id, hist,
                   discover_vars, call_vars, host_vars>>

\* Line 217: self.current_run.completed_at = datetime.now(timezone.utc)
CompleteSetCompletedAt(c) ==
    /\ frame[c].pc = "L217"
    /\ heap' = [heap EXCEPT ![current_run].completed_at = clock]
    /\ clock' = clock + 1
    /\ frame' = [frame EXCEPT ![c].pc = "L218"]
    /\ UNCHANGED <<current_run, db_runs, db_problems, db_products, db_listings,
                   adapters, artifact_dirs,
                   next_id, hist,
                   discover_vars, call_vars, host_vars>>

\* Line 218: self._log("Pipeline completed successfully!")
CompleteLog(c) ==
    /\ frame[c].pc = "L218"
    /\ heap' = Log(heap, current_run, clock, "Pipeline completed successfully!",
                   NoMessage)
    /\ clock' = clock + 1
    /\ frame' = [frame EXCEPT ![c].pc = "L219"]
    /\ UNCHANGED <<current_run, db_runs, db_problems, db_products, db_listings,
                   adapters, artifact_dirs,
                   next_id, hist,
                   discover_vars, call_vars, host_vars>>

\* _complete_run that returns the run without the update of line 219.
CompletePersistSkipped(c) ==
    /\ frame[c].pc = "L219"
    /\ frame' = [frame EXCEPT ![c] =
          [@ EXCEPT !.pc = "done", !.outcome = "returned", !.result = current_run]]
    /\ UNCHANGED <<current_run, heap, db_runs, db_problems, db_products, db_listings,
                   adapters, artifact_dirs, clock, next_id, hist,
                   discover_vars, call_vars, host_vars>>

\* Lines 219-220: self.db.update_pipeline_run(self.current_run);
\* return self.current_run.  _complete_run is called in the try body.
CompletePersist(c) ==
    /\ frame[c].pc = "L219"
    /\ \/ /\ db_runs' = UpdatePipelineRun(db_runs, heap[current_run])
          /\ frame' = [frame EXCEPT ![c] =
                [@ EXCEPT !.pc = "done", !.outcome = "returned",
                          !.result = current_run]]
          /\ hist' = hist
       \/ /\ db_runs' = db_runs
          /\ frame' = [frame EXCEPT ![c] = Raise(@, StoreError)]
          /\ hist' = StoreFault(c)
    /\ UNCHANGED <<current_run, heap, db_problems, db_products, db_listings,
                   adapters, artifact_dirs,
                   clock, next_id,
                   discover_vars, call_vars, host_vars>>

CompleteRun(c) ==
    \/ CompleteSetStatus(c)
    \/ CompleteSetCompletedAt(c)
    \/ CompleteLog(c)
    \/ CompletePersist(c)

\* ---------------------------------------------------------------- _fail_run
\* Line 224: self.current_run.status = PipelineStatus.FAILED
FailSetStatus(c) ==
    /\ frame[c].pc = "L224"
    /\ heap' = [heap EXCEPT ![current_run].status = "failed"]
    /\ frame' = [frame EXCEPT ![c].pc = "L225"]
    /\ UNCHANGED <<current_run, db_runs, db_problems, db_products, db_listings,
                   adapters, artifact_dirs,
                   clock, next_id, hist,
                   discover_vars, call_vars, host_vars>>

\* Line 225: self.current_run.error_message = error_message
FailSetErrorMessage(c) ==
    /\ frame[c].pc = "L225"
    /\ heap' = [heap EXCEPT ![current_run].error_message = frame[c].fail_msg]
    /\ frame' = [frame EXCEPT ![c].pc = "L226"]
    /\ UNCHANGED <<current_run, db_runs, db_problems, db_products, db_listings,
                   adapters, artifact_dirs,
                   clock, next_id, hist,
                   discover_vars, call_vars, host_vars>>

\* Line 226: self.current_run.completed_at = datetime.now(timezone.utc)
FailSetCompletedAt(c) ==
    /\ frame[c].pc = "L226"
    /\ heap' = [heap EXCEPT ![current_run].completed_at = clock]
    /\ clock' = clock + 1
    /\ frame' = [frame EXCEPT ![c].pc = "L227"]
    /\ UNCHANGED <<current_run, db_runs, db_problems, db_products, db_listings,
                   adapters, artifact_dirs,
                   next_id, hist,
                   discover_vars, call_vars, host_vars>>

\* Line 227: self._log(f"Pipeline failed: {error_message}")
FailLog(c) ==
    /\ frame[c].pc = "L227"
    /\ heap' = Log(heap, current_run, clock, "Pipeline failed: ", frame[c].fail_msg)
    /\ clock' = clock + 1
    /\ frame' = [frame EXCEPT ![c].pc = "L228"]
    /\ UNCHANGED <<current_run, db_runs, db_problems, db_products, db_listings,
                   adapters, artifact_dirs,
                   next_id, hist,
                   discover_vars, call_vars, host_vars>>

\* Lines 228-229: self.db.update_pipeline_run(self.current_run);
\* return self.current_run.  A failed write raises: into the handler of line
\* 122 when _fail_run was called in the try body, out of run_full_pipeline
\* when it was called by the handler.
FailPersist(c) ==
    /\ frame[c].pc = "L228"
    /\ \/ /\ db_runs' = UpdatePipelineRun(db_runs, heap[current_run])
          /\ frame' = [frame EXCEPT ![c] =
                [@ EXCEPT !.pc = "done", !.outcome = "returned",
                          !.result = current_run]]
          /\ hist' = hist
       \/ /\ db_runs' = db_runs
          /\ frame' = [frame EXCEPT ![c] = Raise(@, StoreError)]
          /\ hist' = StoreFault(c)
    /\ UNCHANGED <<current_run, heap, db_problems, db_products, db_listings,
                   adapters, artifact_dirs,
                   clock, next_id,
                   discover_vars, call_vars, host_vars>>

FailRun(c) ==
    \/ FailSetStatus(c)
    \/ FailSetErrorMessage(c)
    \/ FailSetCompletedAt(c)
    \/ FailLog(c)
    \/ FailPersist(c)

\* ------------------------------------------------------------ specification
Next ==
    \E c \in Calls :
        \/ RunFullPipeline(c)
        \/ SaveRun(c)
        \/ RunDiscoverStage(c)
        \/ SetProblemIdDiscovered(c)
        \/ LoadProblem(c)
        \/ SetProblemIdLoaded(c)
        \/ RunDefineStage(c)
        \/ SetProductId(c)
        \/ ResolveProduct(c)
        \/ RunBuildStage(c)
        \/ AppendArtifact(c)
        \/ LastArtifact(c)
        \/ RunPackageStage(c)
        \/ SetListingId(c)
        \/ CompleteRun(c)
        \/ FailRun(c)

Spec == Init /\ [][Next]_vars

\* -------------------------------------- ProblemDiscoveryEngine.discover alone
\* One call of discover(limit) followed statement by statement, on any of the
\* adapter configurations and stores, with the runner idle.  pc labels are the
\* line numbers of src/pi_core/engines/__init__.py.
DiscoverInit ==
    /\ current_run = NoId
    /\ heap = <<>>
    /\ \E s \in Stores :
          /\ db_runs = s.runs
          /\ db_problems = s.problems
          /\ db_products = s.products
          /\ db_listings = s.listings
          /\ artifact_dirs = s.dirs
          /\ clock = s.clock
          /\ next_id = s.next_id
    /\ adapters \in AdapterConfigs
    /\ frame = [c \in Calls |-> IdleFrame]
    /\ hist = [c \in Calls |-> NoHist]
    /\ discover_pc = "D32"
    /\ discover_limit \in 0..MaxLimit
    /\ adapter_i = 0
    /\ all_problems = <<>>
    /\ unique_problems = <<>>
    /\ returned = <<>>
    /\ invoked = <<>>
    /\ CallIdle

\* Lines 32-34: all_problems = []; for adapter in self.adapters:
StartDiscover ==
    /\ discover_pc = "D32"
    /\ all_problems' = <<>>
    /\ adapter_i' = 1
    /\ discover_pc' = "D34"
    /\ UNCHANGED <<host_vars, call_vars, pipeline_vars, adapters, discover_limit, unique_problems,
                   returned, invoked>>

\* The loop without the try of lines 35-39 around the adapter call being
\* resumed: an adapter that raises ends the loop.
InvokeAdapterStops ==
    /\ discover_pc = "D34"
    /\ adapter_i <= Len(adapters)
    /\ \E o \in AdapterOutcomes :
          /\ all_problems' = IF o.raised THEN all_problems
                             ELSE all_problems \o o.problems
          /\ invoked' = Append(invoked, [adapter |-> adapter_i, raised |-> o.raised,
                                         problems |-> o.problems])
          /\ adapter_i' = IF o.raised THEN Len(adapters) + 1 ELSE adapter_i + 1
    /\ UNCHANGED <<host_vars, call_vars, pipeline_vars, adapters, discover_pc, discover_limit,
                   unique_problems, returned>>

\* The loop calling an adapter that raised once more instead of going on.
InvokeAdapterRetries ==
    /\ discover_pc = "D34"
    /\ adapter_i <= Len(adapters)
    /\ \E o \in AdapterOutcomes :
          /\ all_problems' = IF o.raised THEN all_problems
                             ELSE all_problems \o o.problems
          /\ invoked' = Append(invoked, [adapter |-> adapter_i, raised |-> o.raised,
                                         problems |-> o.problems])
          /\ adapter_i' = IF o.raised /\ Len(invoked) < Len(adapters)
                          THEN adapter_i ELSE adapter_i + 1
    /\ UNCHANGED <<host_vars, call_vars, pipeline_vars, adapters, discover_pc, discover_limit,
                   unique_problems, returned>>

\* Lines 35-39: one pass of the loop: problems = await
\* adapter.discover_problems(limit=limit); all_problems.extend(problems); an
\* exception of the adapter is printed and the loop goes on.
InvokeAdapter ==
    /\ discover_pc = "D34"
    /\ adapter_i <= Len(adapters)
    /\ \E o \in AdapterOutcomes :
          /\ all_problems' = IF o.raised THEN all_problems
                             ELSE all_problems \o o.problems
          /\ invoked' = Append(invoked, [adapter |-> adapter_i, raised |-> o.raised,
                                         problems |-> o.problems])
    /\ adapter_i' = adapter_i + 1
    /\ UNCHANGED <<host_vars, call_vars, pipeline_vars, adapters, discover_pc, discover_limit,
                   unique_problems, returned>>

\* Line 34: the loop is over when every adapter has had its pass.
AdaptersDone ==
    /\ discover_pc = "D34"
    /\ adapter_i > Len(adapters)
    /\ discover_pc' = "D42"
    /\ UNCHANGED <<host_vars, call_vars, pipeline_vars, adapters, discover_limit, adapter_i, all_problems,
                   unique_problems, returned, invoked>>

\* Line 42: unique_problems = self._deduplicate_problems(all_problems)
Deduplicate ==
    /\ discover_pc = "D42"
    /\ unique_problems' = DeduplicateProblems(all_problems)
    /\ discover_pc' = "D45"
    /\ UNCHANGED <<host_vars, call_vars, pipeline_vars, adapters, discover_limit, adapter_i, all_problems,
                   returned, invoked>>

\* Insert p before the first element whose key is <= its own: a descending
\* sort that puts the later of two equal keys first.
RECURSIVE InsertBeforeEqual(_, _)
InsertBeforeEqual(sorted, p) ==
    IF sorted = <<>> THEN <<p>>
    ELSE IF CompositeScore(Head(sorted)) > CompositeScore(p)
         THEN <<Head(sorted)>> \o InsertBeforeEqual(Tail(sorted), p)
         ELSE <<p>> \o sorted

RECURSIVE SortDescUnstable(_, _)
SortDescUnstable(problems, acc) ==
    IF problems = <<>> THEN acc
    ELSE SortDescUnstable(Tail(problems), InsertBeforeEqual(acc, Head(problems)))

\* Lines 45-52 with a descending sort that is not stable.
RankUnstable ==
    /\ discover_pc = "D45"
    /\ unique_problems' = SortDescUnstable(unique_problems, <<>>)
    /\ discover_pc' = "D54"
    /\ UNCHANGED <<host_vars, call_vars, pipeline_vars, adapters, discover_limit, adapter_i, all_problems,
                   returned, invoked>>

\* Lines 45-52: unique_problems.sort(key=..., reverse=True)
Rank ==
    /\ discover_pc = "D45"
    /\ unique_problems' = SortDesc(unique_problems, <<>>)
    /\ discover_pc' = "D54"
    /\ UNCHANGED <<host_vars, call_vars, pipeline_vars, adapters, discover_limit, adapter_i, all_problems,
                   returned, invoked>>

\* Line 54 with the problems returned saved to the store first.
ReturnTopSaving ==
    /\ discover_pc = "D54"
    /\ returned' = Take(unique_problems, discover_limit)
    /\ db_problems' = db_problems \o
          [i \in 1..Len(returned') |-> WithId(returned'[i], next_id + i - 1)]
    /\ next_id' = next_id + Len(returned')
    /\ discover_pc' = "done"
    /\ UNCHANGED <<current_run, heap, db_runs, db_products, db_listings,
                   artifact_dirs, frame, clock, hist, adapters, discover_limit,
                   adapter_i, all_problems, unique_problems, invoked, call_vars, host_vars>>

\* Line 54 returning the whole list, without the slice.
ReturnAll ==
    /\ discover_pc = "D54"
    /\ returned' = unique_problems
    /\ discover_pc' = "done"
    /\ UNCHANGED <<host_vars, call_vars, pipeline_vars, adapters, discover_limit, adapter_i, all_problems,
                   unique_problems, invoked>>

\* Line 54: return unique_problems[:limit]
ReturnTop ==
    /\ discover_pc = "D54"
    /\ returned' = Take(unique_problems, discover_limit)
    /\ discover_pc' = "done"
    /\ UNCHANGED <<host_vars, call_vars, pipeline_vars, adapters, discover_limit, adapter_i, all_problems,
                   unique_problems, invoked>>

DiscoverNext ==
    \/ StartDiscover
    \/ InvokeAdapter
    \/ AdaptersDone
    \/ Deduplicate
    \/ Rank
    \/ ReturnTop

DiscoverSpec == DiscoverInit /\ [][DiscoverNext]_vars

\* ------------------------------------------- the runner or the engine alone
\* Either calls of run_full_pipeline one after the other, with discover taken
\* as one step, or one call of discover followed statement by statement.
SystemInit == Init \/ DiscoverInit

SystemNext ==
    \/ /\ discover_pc = "idle"
       /\ Next
    \/ DiscoverNext

SystemSpec == SystemInit /\ [][SystemNext]_vars

\* ------------------------------------- calls of run_full_pipeline in flight
\* The number of calls of run_full_pipeline on the one PipelineRunner of
\* ui/__init__.py line 23 that are in flight together.
MaxConcurrent == 2

ConcurrentCalls == 1..MaxConcurrent

\* Where a call can be while another one runs: not started, ended, or at one
\* of the awaits of an engine (lines 132, 159, 179, 201), the only awaits that
\* reach code outside the runner.  Between two of them a coroutine runs
\* without giving up the event loop.
Suspended == {"idle", "done", "L132", "L159", "L179", "L201"}

\* The PipelineRunner of ui/__init__.py line 23 on an empty store with one
\* adapter registered, requests to POST /api/pipeline/run to come.
ConcurrentInit ==
    /\ current_run = NoId
    /\ heap = <<>>
    /\ db_runs = <<>>
    /\ db_problems = <<>>
    /\ db_products = <<>>
    /\ db_listings = <<>>
    /\ artifact_dirs = {}
    /\ clock = NoTime + 1
    /\ next_id = BogusId + 1
    /\ adapters = <<"reddit">>
    /\ frame = [c \in ConcurrentCalls |-> IdleFrame]
    /\ hist = [c \in ConcurrentCalls |-> NoHist]
    /\ DiscoverIdle
    /\ CallIdle

\* ui/__init__.py line 104: run_pipeline awaits run_full_pipeline() with its
\* default arguments; the requests are numbered in the order they start.
RunPipeline(c) ==
    /\ \A d \in ConcurrentCalls : d < c => frame[d].pc # "idle"
    /\ StartRun(c, "discover", NoId)
    /\ UNCHANGED host_vars

\* The event loop resumes a call when every other call is suspended.  With
\* start_from = discover the branches that load a problem or a product are
\* never taken.
ConcurrentNext ==
    \E c \in ConcurrentCalls :
        /\ \A d \in ConcurrentCalls \ {c} : frame[d].pc \in Suspended
        /\ \/ RunPipeline(c)
           \/ SaveRun(c)
           \/ RunDiscoverStage(c)
           \/ SetProblemIdDiscovered(c)
           \/ RunDefineStage(c)
           \/ SetProductId(c)
           \/ RunBuildStage(c)
           \/ AppendArtifact(c)
           \/ LastArtifact(c)
           \/ RunPackageStage(c)
           \/ SetListingId(c)
           \/ CompleteRun(c)
           \/ FailRun(c)

ConcurrentSpec == ConcurrentInit /\ [][ConcurrentNext]_vars

\* ------------------------------------------- a run resumed after another run
\* Two calls of run_full_pipeline on one runner, one after the other.
ResumeCalls == {1, 2}

\* The runner on any store, two calls to come.
ResumeInit ==
    /\ current_run = NoId
    /\ heap = <<>>
    /\ \E s \in Stores :
          /\ db_runs = s.runs
          /\ db_problems = s.problems
          /\ db_products = s.products
          /\ db_listings = s.listings
          /\ artifact_dirs = s.dirs
          /\ clock = s.clock
          /\ next_id = s.next_id
    /\ adapters \in AdapterConfigs
    /\ frame = [c \in ResumeCalls |-> IdleFrame]
    /\ hist = [c \in ResumeCalls |-> NoHist]
    /\ DiscoverIdle
    /\ CallIdle

\* The first call is run_full_pipeline(); when it has ended the second is
\* run_full_pipeline(problem_id, start_from=BUILD) with the id of a stored
\* problem.
RunThenResume(c) ==
    /\ \A d \in ResumeCalls \ {c} : frame[d].pc = (IF d < c THEN "done" ELSE "idle")
    /\ IF \A d \in ResumeCalls : c <= d
       THEN StartRun(c, "discover", NoId)
       ELSE \E i \in 1..Len(db_problems) : StartRun(c, "build", db_problems[i].id)
    /\ UNCHANGED host_vars

ResumeNext ==
    \E c \in ResumeCalls :
        \/ RunThenResume(c)
        \/ SaveRun(c)
        \/ RunDiscoverStage(c)
        \/ SetProblemIdDiscovered(c)
        \/ LoadProblem(c)
        \/ SetProblemIdLoaded(c)
        \/ RunDefineStage(c)
        \/ SetProductId(c)
        \/ ResolveProduct(c)
        \/ RunBuildStage(c)
        \/ AppendArtifact(c)
        \/ LastArtifact(c)
        \/ RunPackageStage(c)
        \/ SetListingId(c)
        \/ CompleteRun(c)
        \/ FailRun(c)

ResumeSpec == ResumeInit /\ [][ResumeNext]_vars

\* ------------------------------------------------ the sort key of discover
\* 1.0 in the unit of the scores (tenths): Problem.confidence_score and
\* recency_score are Field(ge=0.0, le=1.0), frequency_score is Field(ge=0).
ScoreScale == 10

\* The largest frequency_score drawn; above FrequencyNorm so that the cap of
\* min(frequency / 15, 1.0) is reached.
MaxFrequency == 16

\* q has the values of p but for one score, which is at least that of p.
RaisesOneScore(p, q) ==
    \/ /\ p.confidence_score <= q.confidence_score
       /\ p.recency_score = q.recency_score
       /\ p.frequency_score = q.frequency_score
    \/ /\ p.confidence_score = q.confidence_score
       /\ p.recency_score <= q.recency_score
       /\ p.frequency_score = q.frequency_score
    \/ /\ p.confidence_score = q.confidence_score
       /\ p.recency_score = q.recency_score
       /\ p.frequency_score <= q.frequency_score

\* discover at line 45 with two deduplicated problems of any valid scores, the
\* second with one score at or above that of the first; the runner is idle
\* and the store empty.
RankInit ==
    /\ current_run = NoId
    /\ heap = <<>>
    /\ db_runs = <<>>
    /\ db_problems = <<>>
    /\ db_products = <<>>
    /\ db_listings = <<>>
    /\ artifact_dirs = {}
    /\ clock = NoTime + 1
    /\ next_id = BogusId + 1
    /\ adapters = <<"reddit">>
    /\ frame = [c \in Calls |-> IdleFrame]
    /\ hist = [c \in Calls |-> NoHist]
    /\ discover_pc = "D45"
    /\ discover_limit = 2
    /\ adapter_i = 2
    /\ \E c1, r1, c2, r2 \in 0..ScoreScale : \E f1, f2 \in 0..MaxFrequency :
          /\ RaisesOneScore(RawProblem("Fix Bug", c1, r1, f1),
                            RawProblem("Slow CI", c2, r2, f2))
          /\ all_problems = <<RawProblem("Fix Bug", c1, r1, f1),
                              RawProblem("Slow CI", c2, r2, f2)>>
    /\ unique_problems = all_problems
    /\ returned = <<>>
    /\ invoked = <<[adapter |-> 1, raised |-> FALSE, problems |-> all_problems]>>
    /\ CallIdle

RankNext ==
    \/ Rank
    \/ ReturnTop

RankSpec == RankInit /\ [][RankNext]_vars

\* ------------------------------------------------ functions taken on their own
\* The runner idle on an empty store, no adapter registered, no call of
\* discover under way.
RunnerIdle ==
    /\ current_run = NoId
    /\ heap = <<>>
    /\ db_runs = <<>>
    /\ db_problems = <<>>
    /\ db_products = <<>>
    /\ db_listings = <<>>
    /\ artifact_dirs = {}
    /\ clock = NoTime + 1
    /\ next_id = BogusId + 1
    /\ adapters = <<>>
    /\ frame = [c \in Calls |-> IdleFrame]
    /\ hist = [c \in Calls |-> NoHist]
    /\ DiscoverIdle

\* What a call does: it returns a value or raises an error.
Returns(v) == [raised |-> FALSE, error |-> "", value |-> v]

Raises(e) == [raised |-> TRUE, error |-> e, value |-> NoId]

\* ---------------------------------------------------------- Problem(...)
\* How far outside [0,1] (in tenths) and below 0 the values given to the
\* constructor go.
ScoreOver == 2

\* Problem(confidence_score=c, frequency_score=f, recency_score=r): pydantic
\* checks Field(ge=0.0, le=1.0) on the two scores and Field(ge=0) on the
\* frequency and raises ValidationError when a check fails.
Problem(title, c, r, f) ==
    IF /\ c >= 0 /\ c <= ScoreScale
       /\ f >= 0
       /\ r >= 0 /\ r <= ScoreScale
    THEN Returns(RawProblem(title, c, r, f))
    ELSE Raises("ValidationError")

\* A call of the constructor with any scores, in and out of range.
ProblemInit ==
    /\ RunnerIdle
    /\ HostIdle
    /\ call_pc = "M73"
    /\ \E c, r \in (0 - ScoreOver)..(ScoreScale + ScoreOver) :
       \E f \in (0 - ScoreOver)..MaxFrequency :
          call_arg = RawProblem("Fix Bug", c, r, f)
    /\ call_result = NoId

\* models/__init__.py lines 73-86: the model is validated and built.
ConstructProblem ==
    /\ call_pc = "M73"
    /\ call_result' = Problem(call_arg.title, call_arg.confidence_score,
                              call_arg.recency_score, call_arg.frequency_score)
    /\ call_pc' = "done"
    /\ UNCHANGED <<pipeline_vars, adapters, discover_vars, host_vars, call_arg>>

ProblemSpec == ProblemInit /\ [][ConstructProblem]_vars

\* ------------------------------------------- save_problem and get_problem
\* A Problem with the fields the store converts: evidence (a list of
\* EvidenceSnippet, here their timestamp, NoDateTime for None) and discovered_at
\* (a datetime with or without tzinfo).
FullProblem(raw, id, evidence, discovered_at) ==
    [id |-> id, title |-> raw.title, confidence_score |-> raw.confidence_score,
     recency_score |-> raw.recency_score, frequency_score |-> raw.frequency_score,
     evidence |-> evidence, discovered_at |-> discovered_at]

\* datetime.now(timezone.utc), the default of discovered_at, and a datetime
\* without tzinfo such as datetime.fromtimestamp gives.
Aware(t) == [at |-> t, tzinfo |-> "utc"]

Naive(t) == [at |-> t, tzinfo |-> "none"]

\* timestamp: Optional[datetime] = None
NoDateTime == Naive(NoTime)

\* Column(DateTime) on sqlite: the value is written as text without its
\* offset and read back as a datetime without tzinfo.
DateTimeColumn(d) == Naive(d.at)

\* Column(JSON): evidence=[e.model_dump() for e in problem.evidence] is
\* encoded with json.dumps at flush; model_dump leaves a timestamp a
\* datetime, which json.dumps does not encode.
JsonEncodable(evidence) == \A i \in 1..Len(evidence) : evidence[i].timestamp = NoDateTime

\* The row save_problem writes, as get_problem reads it.
ProblemDB(problem) == [problem EXCEPT !.discovered_at = DateTimeColumn(@)]

\* The problems a call of save_problem is given: not stored yet, any of the
\* adapters' problems, with or without evidence, discovered_at with or
\* without tzinfo.
StoreInit ==
    /\ RunnerIdle
    /\ HostIdle
    /\ call_pc = "S35"
    /\ \E o \in AdapterOutcomes : \E i \in 1..Len(o.problems) :
       \E evidence \in {<<>>, <<[timestamp |-> NoDateTime]>>, <<[timestamp |-> Naive(1)]>>} :
       \E discovered_at \in {Aware(1), Naive(1)} :
          call_arg = FullProblem(o.problems[i], next_id, evidence, discovered_at)
    /\ call_result = NoId

\* database.py lines 35-55: save_problem(problem); the flush raises when the
\* evidence cannot be encoded, the commit can fail, else the row is there.
SaveGiven ==
    /\ call_pc = "S35"
    /\ \/ /\ JsonEncodable(call_arg.evidence)
          /\ db_problems' = SaveProblem(db_problems, ProblemDB(call_arg))
          /\ call_result' = [op |-> "save_problem", id |-> call_arg.id,
                             result |-> Returns(NoId)]
          /\ call_pc' = "S86"
       \/ /\ db_problems' = db_problems
          /\ call_result' = [op |-> "save_problem", id |-> call_arg.id,
                             result |-> Raises(IF JsonEncodable(call_arg.evidence)
                                               THEN StoreError ELSE "StatementError")]
          /\ call_pc' = "done"
    /\ UNCHANGED <<current_run, heap, db_runs, db_products, db_listings, adapters,
                   artifact_dirs, frame, clock, next_id, hist, discover_vars, host_vars, call_arg>>

\* database.py lines 86-110: get_problem(problem_id), of the id just saved or
\* of an id never saved.
GetById ==
    /\ call_pc = "S86"
    /\ \E id \in {call_arg.id, BogusId} :
          call_result' = [op |-> "get_problem", id |-> id,
                          result |-> Returns(GetProblem(db_problems, id))]
    /\ call_pc' = "done"
    /\ UNCHANGED <<pipeline_vars, adapters, discover_vars, host_vars, call_arg>>

StoreNext ==
    \/ SaveGiven
    \/ GetById

StoreSpec == StoreInit /\ [][StoreNext]_vars

\* ---------------------------------- ProductDefinitionEngine.define_product
\* The keyword groups of _determine_product_type, in the order it tests them.
ScriptWords == {"automate", "script", "batch", "command"}

ToolWords == {"tool", "utility", "app", "plugin"}

GuideWords == {"learn", "tutorial", "guide", "how"}

\* The product type of the group of a word, "" when it is in no group.
GroupOf(word) ==
    CASE word \in ScriptWords -> "script"
      [] word \in ToolWords -> "micro_tool"
      [] word \in GuideWords -> "guide"
      [] OTHER -> ""

\* keywords_lower = [k.lower() for k in problem.keywords]
KeywordsLower(keywords) == {Lower(keywords[i]) : i \in 1..Len(keywords)}

\* The type taken from the first keyword of the list that is in a group.
RECURSIVE TypeOfFirstKeyword(_)
TypeOfFirstKeyword(keywords) ==
    IF keywords = <<>> THEN "template"
    ELSE IF GroupOf(Lower(Head(keywords))) # ""
         THEN GroupOf(Lower(Head(keywords)))
         ELSE TypeOfFirstKeyword(Tail(keywords))

\* _determine_product_type, lines 62-79: any(word in keywords_lower for word
\* in [...]) for each group in turn, ProductType.TEMPLATE when none matches.
DetermineProductType(keywords) ==
    IF KeywordsLower(keywords) \cap ScriptWords # {} THEN "script"
    ELSE IF KeywordsLower(keywords) \cap ToolWords # {} THEN "micro_tool"
    ELSE IF KeywordsLower(keywords) \cap GuideWords # {} THEN "guide"
    ELSE "template"

\* define_product, lines 11-44: Product(problem_id=problem.id,
\* product_type=product_type, ...) with a fresh id; the other fields are
\* texts chosen by the product type.
DefineTypedProduct(problem, keywords, id) ==
    [id |-> id, problem_id |-> problem.id,
     product_type |-> DetermineProductType(keywords)]

\* The longest keyword list given to define_product.
MaxKeywords == 2

\* Keywords in the groups, in other case, out of every group, and one that
\* only contains a group word.
Vocabulary == {"Script", "batch", "tool", "App", "guide", "how", "setup", "scripts"}

KeywordLists == UNION {[1..n -> Vocabulary] : n \in 0..MaxKeywords}

\* A call of define_product with a problem of any id and keywords.
DefineInit ==
    /\ RunnerIdle
    /\ HostIdle
    /\ call_pc = "E11"
    /\ \E pid \in {next_id + 1, next_id + 2} : \E keywords \in KeywordLists :
          call_arg = [problem |-> WithId(RawProblem("Fix Bug", 5, 5, 3), pid),
                      keywords |-> keywords]
    /\ call_result = NoId

\* product_definition.py lines 11-44: the call returns the product.
DefineOne ==
    /\ call_pc = "E11"
    /\ call_result' = Returns(DefineTypedProduct(call_arg.problem, call_arg.keywords,
                                                 next_id))
    /\ next_id' = next_id + 1
    /\ call_pc' = "done"
    /\ UNCHANGED <<current_run, heap, db_runs, db_problems, db_products,
                   db_listings, adapters, artifact_dirs, frame, clock, hist,
                   discover_vars, host_vars, call_arg>>

DefineSpec == DefineInit /\ [][DefineOne]_vars

\* -------------------------------- RedditAdapter / GitHubAdapter.discover_problems
\* The sub-queries of the two adapters: the subreddits of reddit_adapter.py
\* lines 44-50 and the search queries of github_adapter.py lines 36-41.
SubQueries(adapter) ==
    IF adapter = "reddit"
    THEN <<"programming", "learnprogramming", "webdev", "Python", "javascript">>
    ELSE <<"label:bug is:open", "label:enhancement is:open",
           "label:help-wanted is:open", "label:question is:open">>

\* The frequency at which the adapter's own sort key is capped: 10 for
\* Reddit (line 72), 20 for GitHub (line 72).
AdapterNorm(adapter) == IF adapter = "reddit" THEN 10 ELSE 20

\* The adapter's sort key times 100 * norm:
\* 0.4*confidence + 0.3*recency + 0.3*min(frequency/norm, 1.0).
AdapterScore(p, norm) ==
    4 * norm * p.confidence_score + 3 * norm * p.recency_score
      + 30 * Min(p.frequency_score, norm)

RECURSIVE InsertByScore(_, _, _)
InsertByScore(sorted, p, norm) ==
    IF sorted = <<>> THEN <<p>>
    ELSE IF AdapterScore(Head(sorted), norm) >= AdapterScore(p, norm)
         THEN <<Head(sorted)>> \o InsertByScore(Tail(sorted), p, norm)
         ELSE <<p>> \o sorted

RECURSIVE SortByScore(_, _, _)
SortByScore(problems, acc, norm) ==
    IF problems = <<>> THEN acc
    ELSE SortByScore(Tail(problems), InsertByScore(acc, Head(problems), norm), norm)

\* Lines 67-77 of reddit_adapter.py: sort and slice; lines 60-77 of
\* github_adapter.py: drop repeated titles (compared as they are), sort, slice.
AdapterRanked(adapter, problems, limit) ==
    Take(SortByScore(IF adapter = "reddit" THEN problems
                     ELSE DeduplicateExact(problems),
                     <<>>, AdapterNorm(adapter)), limit)

\* What one sub-query can do: the problems appended before it ended, and
\* whether it ended by an exception (the items after it are lost).  With
\* limit = 10 a sub-query looks at two items at most (limit // 5, limit // 4).
SubQueryOutcomes ==
    { [got |-> <<>>, failed |-> FALSE],
      [got |-> <<>>, failed |-> TRUE],
      [got |-> <<RawProblem("Fix Bug", 5, 5, 3)>>, failed |-> TRUE],
      [got |-> <<RawProblem("Slow CI", 9, 10, 15),
                 RawProblem("Old Docs", 5, 5, 3)>>, failed |-> FALSE] }

\* A call of discover_problems(limit=10) of either adapter, configured or
\* not; nothing done yet.
AdapterInit ==
    /\ RunnerIdle
    /\ HostIdle
    /\ call_pc = "A29"
    /\ \E adapter \in {"reddit", "github"} : \E configured \in BOOLEAN :
          call_arg = [adapter |-> adapter, configured |-> configured,
                      limit |-> DiscoverLimit]
    /\ call_result = [problems |-> <<>>, i |-> 0, calls |-> 0, seen |-> <<>>,
                      failed_outside |-> FALSE, ret |-> Returns(<<>>)]

\* Lines 29-30 (25-26): if not self.is_configured(): return []
CheckConfigured ==
    /\ call_pc = "A29"
    /\ call_pc' = IF call_arg.configured THEN "A33" ELSE "done"
    /\ UNCHANGED <<pipeline_vars, adapters, discover_vars, host_vars, call_arg, call_result>>

\* Lines 33-41 (29-33): the client library is imported and the client built,
\* inside the outer try; problems = [].
ConnectClient ==
    /\ call_pc = "A33"
    /\ \/ /\ call_result' = [call_result EXCEPT !.calls = @ + 1, !.i = 1]
          /\ call_pc' = "A52"
       \/ /\ call_result' = [call_result EXCEPT !.calls = @ + 1,
                                                !.failed_outside = TRUE]
          /\ call_pc' = "A79"
    /\ UNCHANGED <<pipeline_vars, adapters, discover_vars, host_vars, call_arg>>

\* A sub-query whose exception is not caught by an inner try: it reaches the
\* outer except.
SubQueryAborts ==
    /\ call_pc = "A52"
    /\ call_result.i <= Len(SubQueries(call_arg.adapter))
    /\ \E o \in SubQueryOutcomes :
          /\ call_result' = [call_result EXCEPT !.problems = @ \o o.got,
                                                !.seen = Append(@, o),
                                                !.calls = @ + 1,
                                                !.i = @ + 1]
          /\ call_pc' = IF o.failed THEN "A79" ELSE "A52"
    /\ UNCHANGED <<pipeline_vars, adapters, discover_vars, host_vars, call_arg>>

\* Lines 52-65 (43-58): one sub-query inside its own try: the problems it
\* yields are appended one by one; an exception is printed and the loop goes
\* on with the next sub-query.
SubQuery ==
    /\ call_pc = "A52"
    /\ call_result.i <= Len(SubQueries(call_arg.adapter))
    /\ \E o \in SubQueryOutcomes :
          call_result' = [call_result EXCEPT !.problems = @ \o o.got,
                                            !.seen = Append(@, o),
                                            !.calls = @ + 1,
                                            !.i = @ + 1]
    /\ UNCHANGED <<pipeline_vars, adapters, discover_vars, host_vars, call_arg, call_pc>>

\* Lines 67-77 (60-77): after the loop the problems are ranked and returned.
RankAndReturn ==
    /\ call_pc = "A52"
    /\ call_result.i > Len(SubQueries(call_arg.adapter))
    /\ call_result' = [call_result EXCEPT !.ret =
          Returns(AdapterRanked(call_arg.adapter, call_result.problems,
                                call_arg.limit))]
    /\ call_pc' = "done"
    /\ UNCHANGED <<pipeline_vars, adapters, discover_vars, host_vars, call_arg>>

\* Lines 79-81: except Exception as e: print(...); return []
OuterExcept ==
    /\ call_pc = "A79"
    /\ call_result' = [call_result EXCEPT !.ret = Returns(<<>>)]
    /\ call_pc' = "done"
    /\ UNCHANGED <<pipeline_vars, adapters, discover_vars, host_vars, call_arg>>

AdapterNext ==
    \/ CheckConfigured
    \/ ConnectClient
    \/ SubQuery
    \/ RankAndReturn
    \/ OuterExcept

AdapterSpec == AdapterInit /\ [][AdapterNext]_vars

\* ------------------------------------------------------------ core.settings
\* str(value): a str is itself, an int is its decimal digits.
Str(v) ==
    IF v.type = "str" THEN v.s
    ELSE CASE v.n = 0 -> "0"
           [] v.n = 1 -> "1"
           [] v.n = 25 -> "25"
           [] v.n = 50 -> "50"

\* int(s) of a str: surrounding whitespace is ignored, decimal digits are
\* read, anything else raises ValueError.
ParseInt(s) ==
    CASE s = "0" -> Returns(0)
      [] s = "1" -> Returns(1)
      [] s = "25" -> Returns(25)
      [] s = "50" -> Returns(50)
      [] s = " 50 " -> Returns(50)
      [] OTHER -> Raises("ValueError")

\* int(value)
ToInt(v) == IF v.type = "int" THEN Returns(v.n) ELSE ParseInt(v.s)

\* s.strip()
Strip(s) ==
    CASE s = "   " -> ""
      [] s = " rust " -> "rust"
      [] s = " 50 " -> "50"
      [] OTHER -> s

\* Line 26: the settings parsed as integers.
IntKeys == {"max_cost_cents_per_run", "hn_limit"}

\* Line 23: os.getenv(env_key, default_value)
Getenv(env, key, default) == IF env[key].set THEN StrV(env[key].s) ELSE default

\* load_settings that keeps what the environment holds and parses nothing.
LoadSettingsUnparsed(env) ==
    [key \in DOMAIN DEFAULTS |-> Getenv(env, key, DEFAULTS[key])]

\* Lines 17-35: load_settings()
LoadSettings(env) ==
    [key \in DOMAIN DEFAULTS |->
        LET value == Getenv(env, key, DEFAULTS[key])
        IN  IF key \in IntKeys
            THEN IF ToInt(value).raised THEN IntV(DEFAULTS[key].n)
                 ELSE IntV(ToInt(value).value)
            ELSE StrV(Str(value))]

\* Lines 38-41: get(key, default)
Get(env, key, default) ==
    IF key \in DOMAIN LoadSettings(env) THEN LoadSettings(env)[key] ELSE default

\* Lines 44-48: update(updates) written to an environment.
Update(env, updates) ==
    [key \in DOMAIN env |->
        IF key \in DOMAIN updates /\ key \in DOMAIN DEFAULTS
        THEN EnvSet(Str(updates[key]))
        ELSE env[key]]

\* ---------------------------------------- pipelines.run_mvp and its connector
\* How many keys an update names and how many discovery runs follow one
\* another.
MaxUpdateKeys == 2

MaxRuns == 2

\* connectors/hackernews.py lines 32-40: the dict built from one hit.
Signal(ref, title) ==
    [source |-> "hackernews", source_ref |-> ref, title |-> title, body |-> "",
     url |-> ""]

\* run_mvp.py line 80: signal_id = f"{signal['source']}_{signal['source_ref']}"
SignalId(signal) == <<signal.source, signal.source_ref>>

\* connectors/hackernews.py line 14: max(1, min(int(limit), 100))
HitsPerPage(limit) == IF limit < 1 THEN 1 ELSE Min(limit, 100)

\* What Algolia answers to one search: hits, the same story again under a
\* newer title, or an HTTP error (raise_for_status, line 20).
SearchOutcomes ==
    { Returns(<<>>),
      Returns(<<Signal("1", "Ask HN: slow CI")>>),
      Returns(<<Signal("2", "Show HN: tool"), Signal("1", "Ask HN: slow CI?")>>),
      Returns(<<Signal("3", "Flaky tests")>>),
      Raises("HTTPError") }

\* run_mvp.py lines 78-93: the inserts of one batch, in order; an insert of a
\* primary key that is already there raises IntegrityError.
RECURSIVE InsertSignals(_, _, _)
InsertSignals(table, signals, now) ==
    IF signals = <<>> THEN [raised |-> FALSE, table |-> table]
    ELSE LET id == SignalId(Head(signals))
         IN  IF id \in DOMAIN table THEN [raised |-> TRUE, table |-> table]
             ELSE InsertSignals(table @@ (id :> [signal |-> Head(signals),
                                                 discovered_at |-> now]),
                                Tail(signals), now)

\* run_mvp.py lines 77-101: the batch is committed (line 95) when every insert
\* went through, and rolled back as a whole (line 98) when one raised.
StoreSignalsToDb(table, signals, now) ==
    IF InsertSignals(table, signals, now).raised THEN table
    ELSE InsertSignals(table, signals, now).table

\* The values an update gives and the keys it names: three settings and a
\* key that is no setting.
UpdateValues == {StrV("   "), StrV("rust"), StrV("abc"), IntV(50)}

UpdateKeys == {"hn_query", "hn_limit", "mode", "hn_pages"}

Updates ==
    UNION {[K -> UpdateValues] :
             K \in {S \in SUBSET UpdateKeys : Cardinality(S) \in 1..MaxUpdateKeys}}

\* No discovery run yet.
NoRun ==
    [runs |-> 0, query |-> "", limit |-> 0, signals |-> <<>>, searches |-> 0,
     before |-> <<>>, ever |-> {}, raised |-> FALSE, error |-> ""]

\* A fresh process: nothing in the environment, an empty table.
MvpInit ==
    /\ RunnerIdle
    /\ HostIdle
    /\ call_pc = "idle"
    /\ call_arg = [db_path |-> FALSE]
    /\ call_result = NoRun

\* settings.update(updates), between two runs.
UpdateSettings ==
    /\ call_pc \in {"idle", "done"}
    /\ \E updates \in Updates : environ' = Update(environ, updates)
    /\ UNCHANGED <<pipeline_vars, adapters, discover_vars, call_vars,
                   problem_signals, global_enabled, requests>>

\* run_discovery_pipeline(db_path) is called, with a path or with None;
\* lines 23-26 read the settings.
ReadSettings ==
    /\ call_pc \in {"idle", "done"}
    /\ call_result.runs < MaxRuns
    /\ \E db_path \in BOOLEAN : call_arg' = [db_path |-> db_path]
    /\ call_result' =
          [call_result EXCEPT
              !.runs = @ + 1,
              !.query = Strip(Str(Get(environ, "hn_query", StrV("")))),
              !.limit = ToInt(Get(environ, "hn_limit", IntV(25))).value,
              !.signals = <<>>, !.searches = 0, !.before = problem_signals,
              !.raised = FALSE, !.error = ""]
    /\ call_pc' = "R29"
    /\ UNCHANGED <<pipeline_vars, adapters, discover_vars, host_vars>>

\* The check of lines 29-30 left out.
ValidateNothing ==
    /\ call_pc = "R29"
    /\ call_pc' = "R36"
    /\ UNCHANGED <<pipeline_vars, adapters, discover_vars, host_vars, call_arg,
                   call_result>>

\* Lines 29-30: if not query: raise RuntimeError(...)
Validate ==
    /\ call_pc = "R29"
    /\ IF call_result.query = ""
       THEN /\ call_result' = [call_result EXCEPT
                                  !.raised = TRUE,
                                  !.error = "runtime setting hn_query is empty"]
            /\ call_pc' = "done"
       ELSE /\ call_result' = call_result
            /\ call_pc' = "R36"
    /\ UNCHANGED <<pipeline_vars, adapters, discover_vars, host_vars, call_arg>>

\* Line 36: hn_search(...) sends one request; its error propagates.
Search ==
    /\ call_pc = "R36"
    /\ \E outcome \in SearchOutcomes :
          IF outcome.raised
          THEN /\ call_result' = [call_result EXCEPT !.searches = @ + 1,
                                     !.raised = TRUE, !.error = outcome.error]
               /\ call_pc' = "done"
          ELSE /\ call_result' =
                     [call_result EXCEPT
                         !.searches = @ + 1,
                         !.signals = Take(outcome.value, HitsPerPage(call_result.limit))]
               /\ call_pc' = "R41"
    /\ UNCHANGED <<pipeline_vars, adapters, discover_vars, host_vars, call_arg>>

\* Lines 41-44: with a db_path the signals are stored; they are returned.
StoreAndReturn ==
    /\ call_pc = "R41"
    /\ IF call_arg.db_path
       THEN /\ problem_signals' = StoreSignalsToDb(problem_signals, call_result.signals,
                                                   clock)
            /\ clock' = clock + 1
            /\ call_result' = [call_result EXCEPT
                                  !.ever = @ \cup {call_result.signals[i] :
                                                   i \in 1..Len(call_result.signals)}]
       ELSE UNCHANGED <<problem_signals, clock, call_result>>
    /\ call_pc' = "done"
    /\ UNCHANGED <<current_run, heap, db_runs, db_problems, db_products, db_listings,
                   adapters, artifact_dirs, frame, next_id, hist, discover_vars,
                   environ, global_enabled, requests, call_arg>>

MvpNext ==
    \/ UpdateSettings
    \/ ReadSettings
    \/ Validate
    \/ Search
    \/ StoreAndReturn

MvpSpec == MvpInit /\ [][MvpNext]_vars

\* The settings alone: updates applied one after another to the environment.
SettingsSpec == MvpInit /\ [][UpdateSettings]_vars

\* ------------------------------------------------------- the dashboard (ui)
\* How many POST /api/pipeline/run requests are followed.
MaxRequests == 3

\* What a client can send as guardrails_enabled: update_config assigns the
\* JSON value as it comes (line 85), a bool or not.
ConfigValues == {BoolV(TRUE), BoolV(FALSE), StrV("false"), IntV(0)}

\* A request the handler has taken: the kill switch as read, the run it
\* started, the status code answered (0 while the run is under way).
Request(enabled, run, status_code) ==
    [enabled |-> enabled, run |-> run, status_code |-> status_code]

InFlight == \E i \in 1..Len(requests) : requests[i].status_code = 0

\* ui/__init__.py lines 77-91: POST /api/config/update with a
\* guardrails_enabled key; it runs while no call of the runner is between two
\* awaits.
UpdateConfig ==
    /\ \A c \in Calls : frame[c].pc \in Suspended
    /\ \E v \in ConfigValues : global_enabled' = v
    /\ UNCHANGED <<pipeline_vars, adapters, discover_vars, call_vars, environ,
                   problem_signals, requests>>

\* run_pipeline without the check of line 97.
PostPipelineRunUnchecked(c) ==
    /\ Len(requests) < MaxRequests
    /\ ~InFlight
    /\ StartRun(c, "discover", NoId)
    /\ requests' = Append(requests, Request(global_enabled, next_id, 0))
    /\ UNCHANGED <<environ, problem_signals, global_enabled>>

\* ui/__init__.py lines 94-104: POST /api/pipeline/run; with the kill switch
\* off it answers 400, else it calls run_full_pipeline() with the defaults.
PostPipelineRun(c) ==
    /\ Len(requests) < MaxRequests
    /\ ~InFlight
    /\ IF ~Truthy(global_enabled)
       THEN /\ requests' = Append(requests, Request(global_enabled, NoId, 400))
            /\ UNCHANGED <<pipeline_vars, adapters, discover_vars, call_vars, environ,
                           problem_signals, global_enabled>>
       ELSE /\ StartRun(c, "discover", NoId)
            /\ requests' = Append(requests, Request(global_enabled, next_id, 0))
            /\ UNCHANGED <<environ, problem_signals, global_enabled>>

\* Lines 105-114: the run is returned (200) or an exception left
\* run_full_pipeline (500).
Respond(c) ==
    /\ frame[c].pc = "done"
    /\ \E i \in 1..Len(requests) :
          /\ requests[i].run = hist[c].run
          /\ requests[i].status_code = 0
          /\ requests' = [requests EXCEPT ![i].status_code =
                             IF frame[c].outcome = "returned" THEN 200 ELSE 500]
    /\ UNCHANGED <<pipeline_vars, adapters, discover_vars, call_vars, environ,
                   problem_signals, global_enabled>>

\* The dashboard: config updates, run requests and the steps of the runs.
UiNext ==
    \/ UpdateConfig
    \/ \E c \in Calls :
          \/ PostPipelineRun(c)
          \/ Respond(c)
          \/ SaveRun(c)
          \/ RunDiscoverStage(c)
          \/ SetProblemIdDiscovered(c)
          \/ RunDefineStage(c)
          \/ SetProductId(c)
          \/ RunBuildStage(c)
          \/ AppendArtifact(c)
          \/ LastArtifact(c)
          \/ RunPackageStage(c)
          \/ SetListingId(c)
          \/ CompleteRun(c)
          \/ FailRun(c)

UiSpec == Init /\ [][UiNext]_vars

\* ------------------------------------------------------------- observations
\* The calls that have created their run object.
Created == {c \in Calls : hist[c].run # NoId}

\* The run object a call created.
RunOf(c) == heap[hist[c].run]

Ended(c) == frame[c].pc = "done"

Returned(c) == frame[c].outcome = "returned"

Propagated(c) == frame[c].outcome = "raised"

\* The run a call returned.
ResultOf(c) == heap[frame[c].result]

EngineRaised(c) == hist[c].engine_raised # <<>>

Last(s) == s[Len(s)]

Range(s) == {s[i] : i \in 1..Len(s)}

\* ------------------------------------------------------------------- claims
\* C1: when a stage engine raises and every store write of the call commits,
\* the exception never leaves run_full_pipeline, and the call, once ended,
\* has returned a run whose status is failed.
C1_EngineFaultReturnsFailed ==
    \A c \in Created :
        (EngineRaised(c) /\ ~hist[c].store_fault) =>
            /\ ~Propagated(c)
            /\ Ended(c) => (Returned(c) /\ ResultOf(c).status = "failed")

\* C1 witness: a call resumed at build whose build engine raised has returned.
C1_Witness ==
    \E c \in Created :
        /\ Ended(c) /\ Returned(c)
        /\ frame[c].start_from = "build"
        /\ hist[c].engine_raised = <<"build">>
        /\ ~hist[c].store_fault
        /\ ResultOf(c).status = "failed"

\* C2: a call in which a store write failed still ends by returning a run with
\* status failed and a populated error_message; nothing is raised to the caller.
C2_StoreFaultReturnsFailed ==
    \A c \in Created :
        (hist[c].store_fault /\ Ended(c)) =>
            /\ Returned(c)
            /\ ResultOf(c).status = "failed"
            /\ Populated(ResultOf(c).error_message)

\* C3: the status of a run changes only from running, to success or to failed;
\* once it has left running it never changes again.
C3_StatusChangesOnce ==
    [][\A r \in DOMAIN heap :
          heap'[r].status # heap[r].status =>
              /\ heap[r].status = "running"
              /\ heap'[r].status \in {"success", "failed"}]_vars

\* C4: once completed_at is set on a run, no field of the run changes.
C4_FrozenOnceCompleted ==
    [][\A r \in DOMAIN heap :
          heap[r].completed_at # NoTime => heap'[r] = heap[r]]_vars

EngineAt(pc) == CASE pc = "L132" -> "discover"
                  [] pc = "L159" -> "define"
                  [] pc = "L179" -> "build"
                  [] pc = "L201" -> "package"
                  [] OTHER -> "none"

\* C6: whenever the domain operation of a stage begins, the stored row of the
\* run has that stage and status running.
C6_PersistBeforeWork ==
    \A c \in Created :
        EngineAt(frame[c].pc) # "none" =>
            /\ hist[c].run \in DOMAIN db_runs
            /\ db_runs[hist[c].run].stage = EngineAt(frame[c].pc)
            /\ db_runs[hist[c].run].status = "running"

\* C6 witness: a call resumed at build is about to invoke create_listing and
\* the stored row shows the package stage.
C6_Witness ==
    \E c \in Created :
        /\ frame[c].pc = "L201"
        /\ frame[c].start_from = "build"
        /\ db_runs[hist[c].run].stage = "package"

\* The second statement of an executor, where the stage it started is not
\* yet recorded.
BeforeSetStage(c) == frame[c].pc \in {"L128", "L155", "L175", "L197"}

\* C7 as claimed, at the point of return (early failures included): the stage
\* field of the returned run is the stage of the executor most recently
\* started in the call.
C7_StageIsLastStarted ==
    \A c \in Created :
        Returned(c) =>
            /\ hist[c].started # <<>>
            /\ RunOf(c).stage = Last(hist[c].started)

\* C7 amended: the stage field is the stage of the most recently started
\* executor from the executor's assignment of it on, and start_from until the
\* first executor assigns it.
C7_StageIsLastRecorded ==
    \A c \in Created :
        LET started == hist[c].started
            recorded == IF BeforeSetStage(c)
                        THEN SubSeq(started, 1, Len(started) - 1)
                        ELSE started
        IN  RunOf(c).stage = IF recorded = <<>> THEN frame[c].start_from
                             ELSE Last(recorded)

\* C7 witness: a call has returned after starting more than one executor, and
\* its run shows the stage of the last one, which is not the stage it began at.
C7_Witness ==
    \E c \in Created :
        /\ Returned(c)
        /\ Len(hist[c].started) >= 2
        /\ RunOf(c).stage = Last(hist[c].started)
        /\ RunOf(c).stage # frame[c].start_from

\* get_products() / get_problems() default limit.
DefaultLimit == 100

\* An id is retrievable from a table through the store's read operations.
ProductRetrievable(id) ==
    \E i \in 1..Len(GetProducts(db_products, DefaultLimit)) :
        GetProducts(db_products, DefaultLimit)[i].id = id

ProblemRetrievable(id) == GetProblem(db_problems, id) # NoProblem

\* C8: a call that executed Define and whose Package engine raised ends with
\* status failed, and the product of Define and the problem it was derived
\* from are retrievable; no entity a run refers to is ever missing from the store.
C8_ForwardOnlyFailure ==
    \A c \in Created :
        /\ ( /\ Ended(c)
             /\ "define" \in Range(hist[c].started)
             /\ "package" \in Range(hist[c].engine_raised) ) =>
               /\ RunOf(c).status = "failed"
               /\ RunOf(c).product_id # NoId
               /\ RunOf(c).problem_id # NoId
        /\ RunOf(c).product_id # NoId => ProductRetrievable(RunOf(c).product_id)
        /\ RunOf(c).problem_id # NoId => ProblemRetrievable(RunOf(c).problem_id)

\* C8 witness: such a call has ended and its product is in the store.
C8_Witness ==
    \E c \in Created :
        /\ Ended(c)
        /\ hist[c].started = <<"discover", "define", "build", "package">>
        /\ hist[c].engine_raised = <<"package">>
        /\ RunOf(c).status = "failed"
        /\ ProductRetrievable(RunOf(c).product_id)
        /\ ProblemRetrievable(RunOf(c).problem_id)

\* C9: every executor a call starts is at or after its start stage.
C9_Resumability ==
    \A c \in Created :
        \A s \in Range(hist[c].started) :
            StageIndex(s) >= StageIndex(frame[c].start_from)

\* C9 witness: a call resumed at build has run Build and Package and nothing else.
C9_Witness ==
    \E c \in Created :
        /\ Ended(c)
        /\ frame[c].start_from = "build"
        /\ hist[c].started = <<"build", "package">>

\* A call resumed at build that resolved a stored product for which no asset
\* directory had been made.
ResumedBuildNoArtifact(c) ==
    /\ frame[c].start_from = "build"
    /\ hist[c].resolved # NoId
    /\ ~hist[c].prior_artifact

\* C10 as claimed: such a call ends with status failed and the error
\* "No product artifacts found".
C10_BuildResumeFailsNoArtifact ==
    \A c \in Created :
        (Ended(c) /\ ResumedBuildNoArtifact(c)) =>
            /\ RunOf(c).status = "failed"
            /\ RunOf(c).error_message = Text("No product artifacts found")

\* C10 amended: such a call starts the Build executor and never reports
\* "No product artifacts found"; when no engine and no store write raises it
\* returns status success.  Only calls started at package report that error.
C10_BuildResumeBuilds ==
    \A c \in Created :
        /\ (Ended(c) /\ ResumedBuildNoArtifact(c)) =>
              /\ "build" \in Range(hist[c].started)
              /\ RunOf(c).error_message # Text("No product artifacts found")
              /\ (~EngineRaised(c) /\ ~hist[c].store_fault) =>
                    (Returned(c) /\ RunOf(c).status = "success")
        /\ RunOf(c).error_message = Text("No product artifacts found") =>
              frame[c].start_from = "package"

\* C10 witness: a call resumed at build for a product without artifacts has
\* returned with status success.
C10_Witness ==
    \E c \in Created :
        /\ Returned(c) /\ ResumedBuildNoArtifact(c)
        /\ RunOf(c).status = "success"
        /\ RunOf(c).artifacts # <<>>

\* C11: create_listing is invoked only with a non-empty artifact list, on its
\* last entry; a call that reaches the Package step with an empty list never
\* starts the Package executor, obtains no listing, and ends failed, with
\* "No product artifacts found" when its store writes commit.
C11_PackagingNeedsArtifact ==
    \A c \in Created :
        /\ "package" \in Range(hist[c].started) =>
              /\ RunOf(c).artifacts # <<>>
              /\ frame[c].product_dir = Last(RunOf(c).artifacts)
              /\ ~hist[c].no_artifact
        /\ hist[c].no_artifact =>
              /\ "package" \notin Range(hist[c].started)
              /\ frame[c].listing = NoListing
              /\ \A e \in hist[c].saved : e.table # "listings"
              /\ RunOf(c).listing_id = NoId
              /\ Ended(c) => RunOf(c).status = "failed"
              /\ (Ended(c) /\ ~hist[c].store_fault) =>
                    /\ Returned(c)
                    /\ ResultOf(c).error_message = Text("No product artifacts found")

\* C11 witness: a call started at package for a stored problem found no
\* artifact and has returned failed with that message.
C11_Witness ==
    \E c \in Created :
        /\ Returned(c)
        /\ hist[c].no_artifact
        /\ frame[c].problem # NoProblem
        /\ ResultOf(c).status = "failed"
        /\ ResultOf(c).error_message = Text("No product artifacts found")
        /\ "package" \notin Range(hist[c].started)

\* C12: with no adapter registered, discover returns the empty list and does
\* not raise; a call started at discover whose store writes commit then
\* returns a run with status failed, error_message "No problems discovered",
\* stage discover, no problem, product or listing id, and has saved nothing.
C12_NoAdapterNoProblem ==
    \A c \in Created :
        (adapters = <<>> /\ frame[c].start_from = "discover") =>
            /\ Discover(<<>>, DiscoverLimit) = <<>>
            /\ "discover" \notin Range(hist[c].engine_raised)
            /\ frame[c].problem = NoProblem
            /\ hist[c].saved = {}
            /\ hist[c].started \in {<<>>, <<"discover">>}
            /\ (Ended(c) /\ ~hist[c].store_fault) =>
                  /\ Returned(c)
                  /\ ResultOf(c).status = "failed"
                  /\ ResultOf(c).error_message = Text("No problems discovered")
                  /\ ResultOf(c).stage = "discover"
                  /\ ResultOf(c).problem_id = NoId
                  /\ ResultOf(c).product_id = NoId
                  /\ ResultOf(c).listing_id = NoId

\* C12 witness: such a call has returned its failed run.
C12_Witness ==
    \E c \in Created :
        /\ adapters = <<>>
        /\ frame[c].start_from = "discover"
        /\ Returned(c)
        /\ hist[c].started = <<"discover">>
        /\ ResultOf(c).status = "failed"
        /\ ResultOf(c).error_message = Text("No problems discovered")

\* A call not started at discover whose problem_id is omitted or names no
\* stored problem.
NoProblemToResume(c) ==
    /\ frame[c].start_from # "discover"
    /\ \/ frame[c].problem_id = NoId
       \/ GetProblem(db_problems, frame[c].problem_id) = NoProblem

\* C13: such a call starts no stage executor, invokes no engine, saves no
\* problem, product or listing and records no artifact; when its store writes
\* commit it returns a failed run whose error_message is "Problem ID required
\* when skipping discovery" for an omitted id and "Problem <id> not found" for
\* an unknown one.
C13_MissingProblemFailsEarly ==
    \A c \in Created :
        NoProblemToResume(c) =>
            /\ hist[c].started = <<>>
            /\ hist[c].engine_raised = <<>>
            /\ hist[c].saved = {}
            /\ RunOf(c).artifacts = <<>>
            /\ RunOf(c).problem_id = NoId
            /\ (Ended(c) /\ ~hist[c].store_fault) =>
                  /\ Returned(c)
                  /\ ResultOf(c).status = "failed"
                  /\ ResultOf(c).error_message =
                        IF frame[c].problem_id = NoId
                        THEN Text("Problem ID required when skipping discovery")
                        ELSE Message("Problem  not found", frame[c].problem_id, "")

\* C13 witness: a call resumed at build with an id no store holds has returned
\* "Problem <id> not found".
C13_Witness ==
    \E c \in Created :
        /\ Returned(c)
        /\ frame[c].start_from = "build"
        /\ frame[c].problem_id = BogusId
        /\ db_products # <<>>
        /\ ResultOf(c).status = "failed"
        /\ ResultOf(c).error_message = Message("Problem  not found", BogusId, "")
        /\ hist[c].started = <<>>

\* C14: a call that was passed the id of a stored problem never starts the
\* Discover executor, and the run it returns has that id as its problem_id,
\* whatever start_from is.
C14_ProblemIdSkipsDiscovery ==
    \A c \in Created :
        ( /\ frame[c].problem_id # NoId
          /\ GetProblem(db_problems, frame[c].problem_id) # NoProblem ) =>
            /\ "discover" \notin Range(hist[c].started)
            /\ Returned(c) => ResultOf(c).problem_id = frame[c].problem_id

IsPrefix(s, t) == Len(s) <= Len(t) /\ SubSeq(t, 1, Len(s)) = s

\* C15: in every step the log of each run object, and the log of each stored
\* run row, is extended at its end or left as it is: what was there before is
\* a prefix of what is there after.
C15_LogAppendOnly ==
    [][ /\ \A r \in DOMAIN heap : IsPrefix(heap[r].logs, heap'[r].logs)
        /\ \A r \in DOMAIN db_runs : IsPrefix(db_runs[r].logs, db_runs'[r].logs)
      ]_vars

\* C15 witness: a returned run whose log has grown past what an earlier update
\* stored, and whose stored row now holds all of it.
C15_Witness ==
    \E c \in Created :
        /\ Returned(c)
        /\ Len(ResultOf(c).logs) >= 3
        /\ hist[c].started # <<>>
        /\ db_runs[frame[c].result].logs = ResultOf(c).logs

\* The log line an executor appends first.
StartLine(s) == CASE s = "discover" -> "Starting discovery stage..."
                  [] s = "define" -> "Starting definition stage..."
                  [] s = "build" -> "Starting build stage..."
                  [] s = "package" -> "Starting packaging stage..."

\* The log lines an executor appends once its try body is over: result lines,
\* the no-result line of discovery, the line of the except clause.
AfterLines(s) ==
    CASE s = "discover" -> {"No problems discovered", "Discovered problem: ",
                            "Confidence: , Frequency: , Recency: ",
                            "Discovery stage error: "}
      [] s = "define" -> {"Defined product: ", "Type: ", "Features: ",
                          "Definition stage error: "}
      [] s = "build" -> {"Generated assets in: ", "Files created: ",
                         "Build stage error: "}
      [] s = "package" -> {"Created marketplace listing: ", "Pricing: ", "Bundle: ",
                           "Packaging stage error: "}

\* The positions of an executor from the start of its try body to its last
\* log statement.
BodyPcs(s) ==
    CASE s = "discover" -> {"L132", "L134", "L139", "L141", "L149"}
      [] s = "define" -> {"L159", "L160", "L162", "L169"}
      [] s = "build" -> {"L179", "L181", "L187"}
      [] s = "package" -> {"L201", "L202", "L204", "L211"}

\* C16: every executor a call has started has appended its opening line, once,
\* and before anything its body logs; every executor whose body was entered
\* and is over has appended at least one line after the opening one, whether
\* the body returned a result, found nothing or raised.
C16_LogBeforeAndAfter ==
    \A c \in Created :
        LET logs == RunOf(c).logs
            At(text) == {i \in 1..Len(logs) : logs[i].text = text}
        IN  \A s \in Range(hist[c].started) :
               /\ Cardinality(At(StartLine(s))) = 1
               /\ \A i \in At(StartLine(s)), j \in 1..Len(logs) :
                     logs[j].text \in AfterLines(s) => i < j
               /\ (s \in Range(hist[c].entered) /\ frame[c].pc \notin BodyPcs(s)) =>
                     \E j \in 1..Len(logs) : logs[j].text \in AfterLines(s)

\* C16 witness: the define body raised, and the returned run's log has the
\* opening line of the stage followed by the line of its except clause.
C16_Witness ==
    \E c \in Created :
        /\ Returned(c)
        /\ hist[c].engine_raised = <<"define">>
        /\ \E i, j \in 1..Len(RunOf(c).logs) :
              /\ i < j
              /\ RunOf(c).logs[i].text = StartLine("define")
              /\ RunOf(c).logs[j].text = "Definition stage error: "

\* C17: a returned run of a call whose define, build or package engine raised
\* has status failed and the error_message "Pipeline error: " followed by
\* str(e) of the exception raised, whole; the stored row carries the same.
C17_CauseVerbatim ==
    \A c \in Created :
        ( /\ Returned(c)
          /\ Range(hist[c].engine_raised) \cap {"define", "build", "package"} # {} ) =>
            /\ ResultOf(c).status = "failed"
            /\ ResultOf(c).error_message =
                  Message("Pipeline error: ", NoId, frame[c].exc)
            /\ frame[c].exc \in EngineErrors
            /\ db_runs[frame[c].result].error_message = ResultOf(c).error_message

\* C17 witness: the package engine raised "boom" and the returned run reports
\* "Pipeline error: boom".
C17_Witness ==
    \E c \in Created :
        /\ Returned(c)
        /\ hist[c].engine_raised = <<"package">>
        /\ frame[c].exc = "boom"
        /\ ResultOf(c).error_message = Message("Pipeline error: ", NoId, "boom")

\* The ids of the problems a call has saved.
SavedProblems(c) == {e.id : e \in {x \in hist[c].saved : x.table = "problems"}}

\* C18: when discover returned a non-empty list to the Discover stage, the
\* problem the stage selects is the first of the list and no returned problem
\* has a higher composite score; the stage saves no other problem, and once
\* its save has committed exactly that one is saved and stored; the run's
\* problem_id, once assigned, is the id of that problem.
C18_TopProblemSelected ==
    \A c \in Created :
        hist[c].discovered # <<>> =>
            LET ranked == hist[c].discovered
                top == frame[c].problem
            IN  /\ top = WithId(ranked[1], top.id)
                /\ top.id # NoId
                /\ \A i \in 1..Len(ranked) :
                      CompositeScore(ranked[1]) >= CompositeScore(ranked[i])
                /\ SavedProblems(c) \subseteq {top.id}
                /\ (~hist[c].store_fault /\ frame[c].pc # "L139") =>
                      /\ SavedProblems(c) = {top.id}
                      /\ GetProblem(db_problems, top.id) = top
                /\ RunOf(c).problem_id \in {NoId, top.id}
                /\ (~hist[c].store_fault /\ frame[c].pc \notin {"L139", "L141", "L68"}) =>
                      RunOf(c).problem_id = top.id

\* C18 witness: discover returned two problems of different score; the call
\* returned success with the first one saved and as its problem.
C18_Witness ==
    \E c \in Created :
        /\ Returned(c)
        /\ ResultOf(c).status = "success"
        /\ Len(hist[c].discovered) >= 2
        /\ CompositeScore(hist[c].discovered[1]) > CompositeScore(hist[c].discovered[2])
        /\ SavedProblems(c) = {ResultOf(c).problem_id}
        /\ GetProblem(db_problems, ResultOf(c).problem_id).title =
              hist[c].discovered[1].title

\* An adapter call that returned.
NotRaised(o) == ~o.raised

\* C19: at every point of a call of discover, all_problems holds the lists of
\* the adapters invoked so far that returned, and nothing for those that
\* raised; when discover is done every registered adapter was invoked, once
\* and in registration order, and the list returned is the one obtained from
\* the adapters that returned alone.
C19_FailingAdapterSkipped ==
    /\ discover_pc # "D32" => all_problems = Collect(SelectSeq(invoked, NotRaised))
    /\ discover_pc \in {"D42", "D45", "D54", "done"} =>
          /\ Len(invoked) = Len(adapters)
          /\ \A i \in 1..Len(invoked) : invoked[i].adapter = i
    /\ discover_pc = "done" =>
          returned = Discover(SelectSeq(invoked, NotRaised), discover_limit)

\* C19 witness: the first of two adapters raised, the second returned
\* problems, and discover returned problems of the second.
C19_Witness ==
    /\ discover_pc = "done"
    /\ Len(invoked) = 2
    /\ invoked[1].raised
    /\ invoked[2].problems # <<>>
    /\ returned # <<>>
    /\ returned[1] \in Range(invoked[2].problems)

\* The positions of a list whose title, lowercased, is t.
TitlePositions(problems, t) ==
    {i \in 1..Len(problems) : Lower(problems[i].title) = t}

\* The first problem of a list with that lowercased title.
FirstTitled(problems, t) ==
    problems[CHOOSE i \in TitlePositions(problems, t) :
                \A j \in TitlePositions(problems, t) : i <= j]

\* C20: once discover has deduplicated, unique_problems holds, for every
\* lowercased title of all_problems, exactly one problem, and it is the first
\* of all_problems with that title, whatever the scores of the later ones;
\* and all_problems is the adapters' lists in registration order.
C20_FirstOccurrenceKept ==
    discover_pc \in {"D45", "D54"} =>
        /\ all_problems = Collect(invoked)
        /\ \A p \in Range(all_problems) :
              LET t == Lower(p.title) IN
              /\ Cardinality(TitlePositions(unique_problems, t)) = 1
              /\ FirstTitled(unique_problems, t) = FirstTitled(all_problems, t)
        /\ Range(unique_problems) \subseteq Range(all_problems)

\* C20 witness: "Fix Bug" came before a higher-scored "fix bug" and before
\* "Slow CI"; the first and the last are kept, the duplicate is dropped.
C20_Witness ==
    /\ discover_pc = "D45"
    /\ Len(all_problems) = 3
    /\ Len(unique_problems) = 2
    /\ all_problems[1].title = "Fix Bug"
    /\ all_problems[2].title = "fix bug"
    /\ CompositeScore(all_problems[2]) > CompositeScore(all_problems[1])
    /\ unique_problems = <<all_problems[1], all_problems[3]>>


\* The position of x in a list without repetitions.
IndexIn(s, x) == CHOOSE i \in 1..Len(s) : s[i] = x

\* C21: the list discover returns holds problems of the deduplicated input,
\* each once, in non-increasing order of composite score, and two problems of
\* equal composite score are in the order they have in the deduplicated
\* input.
C21_RankedStable ==
    discover_pc = "done" =>
        LET deduped == DeduplicateProblems(all_problems) IN
        /\ Range(returned) \subseteq Range(deduped)
        /\ \A i, j \in 1..Len(returned) :
              i < j =>
                 /\ returned[i] # returned[j]
                 /\ CompositeScore(returned[i]) >= CompositeScore(returned[j])
                 /\ CompositeScore(returned[i]) = CompositeScore(returned[j]) =>
                       IndexIn(deduped, returned[i]) < IndexIn(deduped, returned[j])

\* C21 witness: the deduplicated input was a lower score, a higher score and
\* the lower score again; the higher one is returned first and the two equal
\* ones follow in their input order.
C21_Witness ==
    /\ discover_pc = "done"
    /\ Len(returned) = 3
    /\ LET deduped == DeduplicateProblems(all_problems) IN
       /\ Len(deduped) = 3
       /\ CompositeScore(deduped[1]) = CompositeScore(deduped[3])
       /\ CompositeScore(deduped[2]) > CompositeScore(deduped[1])
       /\ returned = <<deduped[2], deduped[1], deduped[3]>>


\* C22: when discover(limit) is done, with n the length of the ranked
\* deduplicated list, the list returned has min(limit, n) elements and they
\* are the first of the ranked list, in its order; so it has at most limit
\* elements and every problem left out ranks at or below every one returned.
C22_TruncatedToLimit ==
    discover_pc = "done" =>
        LET ranked == SortDesc(DeduplicateProblems(all_problems), <<>>)
            n == Len(ranked)
        IN  /\ Len(returned) = Min(discover_limit, n)
            /\ Len(returned) <= discover_limit
            /\ \A i \in 1..Len(returned) : returned[i] = ranked[i]
            /\ \A i \in 1..Len(returned) : \A j \in (Len(returned) + 1)..n :
                  CompositeScore(ranked[j]) <= CompositeScore(returned[i])

\* C22 witness: a call with a limit of 2 on three ranked problems returned the
\* first two and left the third out.
C22_Witness ==
    /\ discover_pc = "done"
    /\ discover_limit = 2
    /\ Len(unique_problems) = 3
    /\ returned = <<unique_problems[1], unique_problems[2]>>
    /\ unique_problems[3] \notin Range(returned)


\* C23: for two problems with confidence and recency in [0,1] and frequency
\* >= 0 that differ in one score only, the one with the higher score has a
\* sort key at least as high, and the ranking puts it first unless the two
\* keys are equal.
C23_ScoreMonotone ==
    \A i, j \in 1..Len(all_problems) :
        RaisesOneScore(all_problems[i], all_problems[j]) =>
           /\ CompositeScore(all_problems[i]) <= CompositeScore(all_problems[j])
           /\ (/\ discover_pc \in {"D54", "done"}
               /\ i # j
               /\ unique_problems[1] = all_problems[i])
                 => CompositeScore(all_problems[i]) = CompositeScore(all_problems[j])

\* C23 witness: two problems ranked, the second with a frequency above and
\* the first with a frequency below FrequencyNorm, all else equal, and the
\* second ranked first; and its key is that of frequency FrequencyNorm.
C23_Witness ==
    /\ discover_pc = "D54"
    /\ all_problems[1].frequency_score < FrequencyNorm
    /\ all_problems[2].frequency_score > FrequencyNorm
    /\ all_problems[1].confidence_score = all_problems[2].confidence_score
    /\ all_problems[1].recency_score = all_problems[2].recency_score
    /\ unique_problems = <<all_problems[2], all_problems[1]>>
    /\ CompositeScore(all_problems[2]) =
          CompositeScore([all_problems[2] EXCEPT !.frequency_score = FrequencyNorm])


\* C24: with two calls of run_full_pipeline in flight on the one runner,
\* interleaved at the awaits of the engines, a call that has returned has
\* returned the run record it created itself, and that record is the one it
\* brought to its end: it is no longer running.
C24_RunsIsolated ==
    \A c \in ConcurrentCalls :
        Returned(c) =>
            /\ frame[c].result = hist[c].run
            /\ RunOf(c).status # "running"


\* A list in which nothing occurs twice.
NoRepeat(s) == \A i, j \in 1..Len(s) : s[i] = s[j] => i = j

\* A stage of the call has failed: an engine or a store write raised, or
\* _fail_run was called.
StageFailed(c) ==
    \/ hist[c].engine_raised # <<>>
    \/ hist[c].store_fault
    \/ Populated(frame[c].fail_msg)

\* The adapters a call of discover invoked.
AdaptersInvoked == [i \in 1..Len(invoked) |-> invoked[i].adapter]

\* C25: at every step, no stage executor has been started twice in a call of
\* run_full_pipeline and no adapter has been invoked twice in a call of
\* discover; a call in which a stage has failed starts no further executor,
\* and at most one engine raises in a call.
C25_NothingRetried ==
    [][ /\ \A c \in Calls :
             /\ NoRepeat(hist[c].started)'
             /\ Len(hist[c].engine_raised)' <= 1
             /\ StageFailed(c) => hist'[c].started = hist[c].started
        /\ NoRepeat(AdaptersInvoked)' ]_vars

\* C25 witness: the Define engine raised after Discover and Define had been
\* started once each; the call returned a failed run and started nothing
\* else.
C25_Witness ==
    \E c \in Calls :
        /\ Returned(c)
        /\ hist[c].engine_raised = <<"define">>
        /\ hist[c].started = <<"discover", "define">>
        /\ ResultOf(c).status = "failed"


\* The problem, product, listing and run stores.
Stores4 == <<db_problems, db_products, db_listings, db_runs>>

\* C26: no step of a call of discover, and no step of a run that is at the
\* await of discover (line 132 of the runner), changes the problem, product,
\* listing or run store, whatever the adapters return or raise.
C26_DiscoverReadOnly ==
    [][ (\/ discover_pc # "idle"
         \/ \E c \in Calls : frame[c].pc = "L132")
           => Stores4' = Stores4 ]_vars

\* C26 witness: discover is done on a store that holds a problem, one adapter
\* raised, another returned problems, problems were returned, and the stores
\* hold the rows they held before, the new problems not among them.
C26_Witness ==
    /\ discover_pc = "done"
    /\ \E i \in 1..Len(invoked) : invoked[i].raised
    /\ returned # <<>>
    /\ db_problems = <<StoredProblem>>
    /\ db_runs = BuildFailedRun.id :> BuildFailedRun
    /\ \A i \in 1..Len(returned) : returned[i].title # StoredProblem.title


\* A score brought into [0,1].
Clamp(x) == IF x < 0 THEN 0 ELSE IF x > ScoreScale THEN ScoreScale ELSE x

\* C27: a call of the Problem constructor, once done, has built a problem, it
\* has not raised; the problem's confidence and recency are the values given
\* clamped into [0,1], and its frequency is not negative.
C27_ClampedAtConstruction ==
    (call_pc = "done" /\ call_arg.frequency_score >= 0) =>
        /\ ~call_result.raised
        /\ call_result.value.confidence_score = Clamp(call_arg.confidence_score)
        /\ call_result.value.recency_score = Clamp(call_arg.recency_score)
        /\ call_result.value.frequency_score >= 0


\* C28: get_problem of the id of the problem that save_problem has just
\* stored returns a problem equal to the one saved in every field, and
\* get_problem of an id never saved returns nothing.
C28_StoreRoundTrip ==
    (call_pc = "done" /\ call_result.op = "get_problem") =>
        call_result.result.value =
           (IF call_result.id = call_arg.id THEN call_arg ELSE NoProblem)


\* The problem has a keyword that, lowercased, is a word of the group.
Matches(group) ==
    \E i \in 1..Len(call_arg.keywords) : Lower(call_arg.keywords[i]) \in group

\* C29: a call of define_product, once done, has returned a product, it has
\* not raised; the product's problem_id is the id of the problem given; its
\* type is script when a keyword is in the script group, else micro_tool when
\* one is in the tool group, else guide when one is in the guide group, else
\* template.
C29_TypeByFirstGroup ==
    call_pc = "done" =>
        /\ ~call_result.raised
        /\ call_result.value.problem_id = call_arg.problem.id
        /\ call_result.value.id # call_arg.problem.id
        /\ Matches(ScriptWords) => call_result.value.product_type = "script"
        /\ (~Matches(ScriptWords) /\ Matches(ToolWords)) =>
              call_result.value.product_type = "micro_tool"
        /\ (~Matches(ScriptWords) /\ ~Matches(ToolWords) /\ Matches(GuideWords)) =>
              call_result.value.product_type = "guide"
        /\ (~Matches(ScriptWords) /\ ~Matches(ToolWords) /\ ~Matches(GuideWords)) =>
              call_result.value.product_type = "template"

\* C29 witness: the first keyword is a guide word and the second, in another
\* case, a script word; the product is a script.  (The template default has
\* its own state: keywords "setup", "scripts" give a template.)
C29_Witness ==
    /\ call_pc = "done"
    /\ call_arg.keywords = <<"how", "Script">>
    /\ call_result.value.product_type = "script"
    /\ call_result.value.problem_id = call_arg.problem.id


\* The problems the sub-queries appended, in order.
RECURSIVE Gathered(_)
Gathered(seen) ==
    IF seen = <<>> THEN <<>> ELSE Head(seen).got \o Gathered(Tail(seen))

\* C30: a call of discover_problems of either adapter, once done, has
\* returned a list, it has not raised.  Unconfigured, the list is empty and
\* the client library was not used.  When building the client failed, the
\* list is empty.  Otherwise every sub-query was run, and the list holds the
\* problems every sub-query appended before it ended or failed (each title
\* once for GitHub), those of the sub-queries after a failed one included.
C30_AdapterNeverRaises ==
    call_pc = "done" =>
        /\ ~call_result.ret.raised
        /\ ~call_arg.configured =>
              /\ call_result.ret.value = <<>>
              /\ call_result.calls = 0
        /\ call_result.failed_outside => call_result.ret.value = <<>>
        /\ (call_arg.configured /\ ~call_result.failed_outside) =>
              /\ Len(call_result.seen) = Len(SubQueries(call_arg.adapter))
              /\ Range(call_result.ret.value) = Range(Gathered(call_result.seen))
              /\ call_arg.adapter = "reddit" =>
                    Len(call_result.ret.value) = Len(Gathered(call_result.seen))
              /\ call_arg.adapter = "github" =>
                    NoRepeat([k \in 1..Len(call_result.ret.value) |->
                                 call_result.ret.value[k].title])

\* C30 witness: the first sub-query failed after one problem, a later one
\* yielded two, and the call returned all three.
C30_Witness ==
    /\ call_pc = "done"
    /\ call_arg.configured
    /\ ~call_result.failed_outside
    /\ call_result.seen[1].failed
    /\ call_result.seen[1].got # <<>>
    /\ \E k \in 2..Len(call_result.seen) : Len(call_result.seen[k].got) = 2
    /\ Len(call_result.ret.value) = 3
    /\ call_result.seen[1].got[1] \in Range(call_result.ret.value)


\* The hn_query setting as the environment gives it is empty or only
\* whitespace.
BlankQuery == Strip(Str(LoadSettings(environ)["hn_query"])) = ""

\* C31: with hn_query empty or only whitespace run_discovery_pipeline raises
\* RuntimeError "runtime setting hn_query is empty": no step of the run gets to
\* the search or the store, and the run ends raised with that message, no
\* search request sent and the table as it was when the run started.
C31_EmptyQueryRaisesFirst ==
    [][BlankQuery /\ call_pc # "done" /\ call_pc' # "R29" =>
          /\ call_pc' \notin {"R36", "R41"}
          /\ call_pc' = "done" =>
                /\ call_result'.raised
                /\ call_result'.error = "runtime setting hn_query is empty"
                /\ call_result'.searches = 0
                /\ call_result'.signals = <<>>
                /\ problem_signals' = call_result'.before]_vars

\* A run with a db_path that raised on a whitespace query set by an update,
\* after an earlier run had stored signals.
C31_Witness ==
    /\ call_pc = "done"
    /\ call_arg.db_path
    /\ environ["hn_query"] = EnvSet("   ")
    /\ call_result.raised
    /\ call_result.error = "runtime setting hn_query is empty"
    /\ call_result.runs = 2
    /\ DOMAIN problem_signals # {}


\* What stays as it was when update(u) is applied to the environment: the
\* settings u does not name.
OthersKept(u) ==
    \A key \in DOMAIN DEFAULTS \ DOMAIN u :
       LoadSettings(Update(environ, u))[key] = LoadSettings(environ)[key]

\* C32 as stated: from every environment, after update(u), load_settings()
\* returns for every setting u names the value u gives, an int with the same
\* digits for the two integer settings and the str of the value for the
\* others; the other settings keep their values and a key that is no setting
\* changes nothing.
C32_UpdateThenLoad ==
    \A u \in Updates :
       /\ DOMAIN LoadSettings(Update(environ, u)) = DOMAIN DEFAULTS
       /\ OthersKept(u)
       /\ \A key \in DOMAIN u \cap DOMAIN DEFAULTS :
             LET loaded == LoadSettings(Update(environ, u))[key]
             IN  IF key \in IntKeys
                 THEN loaded.type = "int" /\ Str(loaded) = Str(u[key])
                 ELSE loaded = StrV(Str(u[key]))

\* C32: from every environment, after update(u), load_settings() returns for
\* every setting u names: for the two integer settings the value as an int
\* when its text is a decimal integer and the default of DEFAULTS when it is
\* not, for the others the str of the value; the other settings keep their
\* values and a key that is no setting changes nothing.
C32_UpdateThenLoadOrDefault ==
    \A u \in Updates :
       /\ DOMAIN LoadSettings(Update(environ, u)) = DOMAIN DEFAULTS
       /\ OthersKept(u)
       /\ \A key \in DOMAIN u \cap DOMAIN DEFAULTS :
             LET loaded == LoadSettings(Update(environ, u))[key]
                 text == Strip(Str(u[key]))
             IN  IF key \in IntKeys
                 THEN IF text \in {"0", "1", "25", "50"}
                      THEN loaded.type = "int" /\ Str(loaded) = text
                      ELSE loaded = DEFAULTS[key]
                 ELSE loaded = StrV(Str(u[key]))

\* Updates have set hn_limit to a text that is no integer, mode to an int and
\* hn_query to a str; max_cost_cents_per_run was never named.
C32_Witness ==
    /\ environ["hn_limit"] = EnvSet("abc")
    /\ LoadSettings(environ)["hn_limit"] = IntV(25)
    /\ LoadSettings(environ)["mode"] = StrV("50")
    /\ LoadSettings(environ)["hn_query"] = StrV("rust")
    /\ LoadSettings(environ)["max_cost_cents_per_run"] = IntV(0)


\* C34: store_signals_to_db inserts or updates: after a run with a db_path
\* every signal of its batch is in problem_signals with the values the batch
\* gave, also when one of them was there before, and every signal any run
\* with a db_path returned is in the table.
C34_InsertOrUpdate ==
    /\ call_pc = "done" /\ call_arg.db_path /\ ~call_result.raised =>
          \A i \in 1..Len(call_result.signals) :
             /\ SignalId(call_result.signals[i]) \in DOMAIN problem_signals
             /\ problem_signals[SignalId(call_result.signals[i])].signal
                   = call_result.signals[i]
    /\ \A signal \in call_result.ever : SignalId(signal) \in DOMAIN problem_signals


\* The rows an earlier process left in table pipeline_runs.
RowsOfEarlierProcess == {BuildFailedRun, SucceededRun}

\* C33: while the kill switch is off a POST /api/pipeline/run creates and
\* persists no run, starts no stage and answers with an error (400); and
\* after any config updates and run requests every run in the store that
\* this process wrote was requested while global_enabled was on.
C33_KillSwitch ==
    /\ [](\A id \in DOMAIN db_runs :
             \/ db_runs[id] \in RowsOfEarlierProcess
             \/ \E i \in 1..Len(requests) :
                   requests[i].run = id /\ Truthy(requests[i].enabled))
    /\ [][~Truthy(global_enabled) /\ Len(requests') > Len(requests) =>
             /\ requests'[Len(requests')].status_code = 400
             /\ requests'[Len(requests')].run = NoId
             /\ <<current_run, heap, db_runs, frame, hist>>'
                   = <<current_run, heap, db_runs, frame, hist>>]_vars

\* The switch was turned off, a request was refused, the switch was turned
\* on, the next request ran to a stored successful run, and the switch is off
\* again with a third request refused.
C33_Witness ==
    /\ Len(requests) = 3
    /\ requests[1].status_code = 400 /\ requests[1].enabled = BoolV(FALSE)
    /\ requests[2].status_code = 200 /\ requests[2].enabled = BoolV(TRUE)
    /\ requests[3].status_code = 400
    /\ requests[2].run \in DOMAIN db_runs
    /\ db_runs[requests[2].run].status = "success"
    /\ ~Truthy(global_enabled)


\* C35: a run ends with status success only if its package stage ran and saved a
\* listing in that run: listing_id is set and the artifact list is not empty,
\* whatever start_from is.
C35_SuccessNeedsListing ==
    \A c \in Created :
       Ended(c) /\ RunOf(c).status = "success" =>
          /\ "package" \in Range(hist[c].started)
          /\ \E e \in hist[c].saved : e.table = "listings"
          /\ RunOf(c).listing_id # NoId
          /\ RunOf(c).artifacts # <<>>


\* The store holds what an earlier run produced: the problem, a product of it
\* and the asset directory of that product.
EarlierRunLeft(problem_id) ==
    /\ ProblemRetrievable(problem_id)
    /\ \E i \in 1..Len(db_products) :
          /\ db_products[i].problem_id = problem_id
          /\ GenerateAssets(db_products[i]) \in artifact_dirs

\* C36: a run started with start_from=package and the id of a stored problem
\* can end with success.  Nothing but a raising engine or store write is left
\* to chance in a run, so this says: such a run, from a store that holds a
\* product and the asset directory of an earlier run, with no engine and no
\* store write raising, ends with status success after its package stage ran
\* and saved a listing.
C36_PackageResumeSucceeds ==
    \A c \in Created :
       (/\ Ended(c)
        /\ frame[c].start_from = "package"
        /\ EarlierRunLeft(frame[c].problem_id)
        /\ ~hist[c].store_fault
        /\ ~EngineRaised(c)) =>
          /\ RunOf(c).status = "success"
          /\ "package" \in Range(hist[c].started)
          /\ \E e \in hist[c].saved : e.table = "listings"


\* C37: at every point of every run, whatever start_from is, the references
\* of the run follow the data flow: listing_id set implies product_id set,
\* and product_id set implies problem_id set.
C37_ReferencesConsistent ==
    \A c \in Created :
       /\ RunOf(c).listing_id # NoId => RunOf(c).product_id # NoId
       /\ RunOf(c).product_id # NoId => RunOf(c).problem_id # NoId


\* C38: in every run the product that is built and packaged was derived from
\* the run's own problem: once the build or the package executor has started,
\* the product it is given has problem_id equal to the run's problem_id, also
\* when the run starts at build and takes the product from the store.
C38_ProductOfOwnProblem ==
    \A c \in ResumeCalls :
       (/\ hist[c].run # NoId
        /\ Range(hist[c].started) \cap {"build", "package"} # {}) =>
          frame[c].product.problem_id = heap[hist[c].run].problem_id


\* The fields update_pipeline_run writes, of a run object or of a row.
Written(run) ==
    [stage |-> run.stage, status |-> run.status, problem_id |-> run.problem_id,
     product_id |-> run.product_id, listing_id |-> run.listing_id,
     error_message |-> run.error_message, logs |-> run.logs,
     artifacts |-> run.artifacts, completed_at |-> run.completed_at]

====
